---- MODULE Spec2Model ----
(***************************************************************************)
(* TimelineTransaction (src/src/transaction.ts): capture / commit /        *)
(* rollback of timelines held in a registry Record<number, TimelineData>.  *)
(*                                                                         *)
(* The registry is a function whose DOMAIN is the set of ids present, so   *)
(* `timelines[id]` being truthy is `id \in DOMAIN timelines` and           *)
(* `delete timelines[id]` removes id from the domain.  A Map is a sequence *)
(* of entries in insertion order (the order `for..of` visits them).        *)
(***************************************************************************)
EXTENDS Integers, Sequences, FiniteSets, TLC

VARIABLES
    timelines,   \* the registry: id -> TimelineData, for the ids present
    txn,         \* transaction slot -> TimelineTransaction fields
    events,      \* what rollback did since the transaction was constructed
    outcome,     \* how the most recent call ended: returned, logged, or the error thrown
    created,     \* ids of timelines created while the transaction was Open
    uncaptured,  \* ids mutated while the transaction was Open, before their capture
    steps,       \* number of mutations / creations in the operation
    pc,          \* where the request that owns the transaction is
    heap,        \* the objects of the timeline and of its capture, by address
    live,        \* the addresses the timeline's fields hold
    saved,       \* the addresses the transaction's captured state holds
    arg,         \* the argument of a helper function
    result,      \* what the helper returned
    engine,      \* what load() does with a string it cannot parse: "reports" or "throws"
    timelineCols,     \* Board3DManager.timelineCols: id -> TimelineCol
    branchLineGroup,  \* the children of Board3DManager.branchLineGroup
    calls             \* number of calls made on the view

\* The variables the methods of TimelineTransaction leave alone.
rest == <<engine, timelineCols, branchLineGroup, calls>>

aux == <<pc, heap, live, saved, arg, result, rest>>

vars == <<timelines, txn, events, outcome, created, uncaptured, steps, aux>>

----------------------------------------------------------------------------
(* Bounds of the model *)

MaxNew == 2       \* longest newTimelineIds list
MaxSteps == 2     \* mutations and creations during the operation

BoardSize == 8    \* rows and columns of a board

\* The timeline ids calls are made with: two timelines exist at the start.
Ids == {1, 2, 3}
TxIds == {1, 2}

----------------------------------------------------------------------------
(* Values: pieces, boards, snapshots, moves, positions *)

\* An empty cell (null) has the shape of a piece so that cells compare.
Null == [type |-> "null", color |-> "null"]
Undefined == "undefined"

\* null where a number or an address is expected
NullRef == 0

WhiteQueen == [type |-> "q", color |-> "w"]
BlackKing == [type |-> "k", color |-> "b"]

Rows == 0..(BoardSize - 1)

EmptyBoard == [r \in Rows |-> [c \in Rows |-> Null]]

BoardA == [EmptyBoard EXCEPT ![0][4] = BlackKing]

BoardB == [EmptyBoard EXCEPT ![0][4] = BlackKing, ![7][3] = WhiteQueen]

\* AnySnapshot: the old format is the board array itself, the new format an
\* object {fen, board}.  isArray is what Array.isArray(snapshot) answers.
ArraySnapshot(b) == [isArray |-> TRUE, fen |-> <<>>, board |-> b]

ObjectSnapshot(f, b) == [isArray |-> FALSE, fen |-> f, board |-> b]

MoveA ==
    [from |-> "e2", to |-> "e4", piece |-> "p", captured |-> Undefined,
     san |-> "e4", isWhite |-> TRUE, promotion |-> Undefined]

MoveB ==
    [from |-> "d7", to |-> "e8", piece |-> "p", captured |-> "r",
     san |-> "dxe8=Q", isWhite |-> FALSE, promotion |-> "q"]

\* The move a step of the operation appends.
NewMove == MoveB

\* ChessInstance: the position a timeline's engine holds.
Position(pl, w) == [placement |-> pl, whiteToMove |-> w]

Positions == {Position("start", TRUE), Position("qqq", FALSE)}

\* A position the engine can hold (pieces are removed and placed one by one)
\* but whose string load() rejects.
Kingless == Position("kingless", TRUE)

Placements == {"start", "qqq"}

\* chess.fen(): the positional string, as the fields it is made of.
Fen(p) == <<p.placement, IF p.whiteToMove THEN "w" ELSE "b">>

FenParses(s) == Len(s) = 2 /\ s[1] \in Placements /\ s[2] \in {"w", "b"}

\* chess.load(fen): the position a string parses to.
ParseFen(s) == Position(s[1], s[2] = "w")

\* chess.load(fen) on an engine holding p: the position afterwards.
Load(p, s) == IF FenParses(s) THEN ParseFen(s) ELSE p

\* The snapshot taken of a position.
SnapshotOf(p) ==
    ObjectSnapshot(Fen(p), IF p.placement = "start" THEN BoardA ELSE BoardB)

Labels == {"source", "target"}

----------------------------------------------------------------------------
(* Deep cloning helpers of TimelineTransaction *)

deepCloneMoveHistory(moves) ==
    [i \in 1..Len(moves) |->
        [from |-> moves[i].from,
         to |-> moves[i].to,
         piece |-> moves[i].piece,
         captured |-> moves[i].captured,
         san |-> moves[i].san,
         isWhite |-> moves[i].isWhite,
         promotion |-> moves[i].promotion]]

\* deepCloneBoard with the row loop ending one row early.
deepCloneBoard_SkipsLastRow(board) ==
    [r \in Rows |->
        [c \in Rows |->
            LET p == board[r][c]
            IN  IF p # Null /\ r < BoardSize - 1
                THEN [type |-> p.type, color |-> p.color]
                ELSE Null]]

deepCloneBoard(board) ==
    [r \in Rows |->
        [c \in Rows |->
            LET p == board[r][c]
            IN  IF p # Null THEN [type |-> p.type, color |-> p.color] ELSE Null]]

deepCloneSnapshot(snapshot) ==
    IF snapshot.isArray
    THEN ArraySnapshot(deepCloneBoard(snapshot.board))
    ELSE ObjectSnapshot(snapshot.fen, deepCloneBoard(snapshot.board))

deepCloneSnapshots(snapshots) ==
    [i \in 1..Len(snapshots) |-> deepCloneSnapshot(snapshots[i])]

----------------------------------------------------------------------------
(* The transaction object *)

NewTransaction ==
    [capturedStates |-> <<>>,
     newTimelineIds |-> <<>>,
     committed |-> FALSE,
     rolledBack |-> FALSE]

isFinalized(t) == txn[t].committed \/ txn[t].rolledBack

isCommitted(t) == txn[t].committed

isRolledBack(t) == txn[t].rolledBack

CapturedIds(t) == {txn[t].capturedStates[i].id : i \in 1..Len(txn[t].capturedStates)}

HasCaptured(t, id) == id \in CapturedIds(t)

NewIds(t) == {txn[t].newTimelineIds[i] : i \in 1..Len(txn[t].newTimelineIds)}

TimelineState(id, timeline, label) ==
    [id |-> id,
     fen |-> Fen(timeline.chess),
     moveHistory |-> deepCloneMoveHistory(timeline.moveHistory),
     snapshots |-> deepCloneSnapshots(timeline.snapshots),
     label |-> label]

\* How a call ends: it returns, it returns after logging that it did nothing,
\* or it throws an Error with a message.
Ok == "ok"
Committed == "Committed successfully"
RollbackComplete == "Rollback complete"
AlreadyCaptured == "already captured, skipping"
AlreadyRolledBack == "Already rolled back, ignoring duplicate rollback call"
ErrFinalized == "Error: Transaction already finalized"
ErrCommitted == "Error: Cannot rollback a committed transaction"
ErrCallback == "Error: thrown by onDeleteTimeline"
ErrLoad == "Error: thrown by chess.load"

Errors == {ErrFinalized, ErrCommitted, ErrCallback, ErrLoad}

----------------------------------------------------------------------------
(* What rollback does, step by step *)

Event(kind, id, reg) == [kind |-> kind, id |-> id, present |-> id \in DOMAIN reg]

Without(reg, id) == [i \in (DOMAIN reg) \ {id} |-> reg[i]]

\* onDeleteTimeline(newId) throws: always, or for a timeline that has a parent.
CallbackThrows(cb, newId, reg) ==
    \/ cb = "throws"
    \/ cb = "throwsOnBranch" /\ reg[newId].parentId # NullRef

\* The loop of step 1 deleting the timeline before it invokes the callback.
RECURSIVE DeleteNewTimelines_DeleteFirst(_, _, _, _)
DeleteNewTimelines_DeleteFirst(ids, reg, log, cb) ==
    IF ids = <<>>
    THEN [reg |-> reg, log |-> log, thrown |-> FALSE]
    ELSE LET newId == Head(ids)
             gone == Without(reg, newId)
         IN  IF newId \in DOMAIN reg
             THEN LET removed == Append(log, Event("delete", newId, reg))
                      called == IF cb = "absent"
                                THEN removed
                                ELSE Append(removed, Event("callback", newId, gone))
                  IN  IF CallbackThrows(cb, newId, reg)
                      THEN [reg |-> gone, log |-> called, thrown |-> TRUE]
                      ELSE DeleteNewTimelines_DeleteFirst(Tail(ids), gone, called, cb)
             ELSE DeleteNewTimelines_DeleteFirst(Tail(ids), reg, log, cb)

\* The loop of step 1 without the test that the timeline is in the registry.
RECURSIVE DeleteNewTimelines_NoPresenceTest(_, _, _, _)
DeleteNewTimelines_NoPresenceTest(ids, reg, log, cb) ==
    IF ids = <<>>
    THEN [reg |-> reg, log |-> log, thrown |-> FALSE]
    ELSE LET newId == Head(ids)
         IN  IF cb = "throws"
             THEN [reg |-> reg,
                   log |-> Append(log, Event("callback", newId, reg)),
                   thrown |-> TRUE]
             ELSE LET called == IF cb # "absent"
                                THEN Append(log, Event("callback", newId, reg))
                                ELSE log
                  IN  DeleteNewTimelines_NoPresenceTest(Tail(ids), Without(reg, newId),
                          Append(called, Event("delete", newId, reg)), cb)

\* Step 1 of rollback: the loop over newTimelineIds.  cb is the
\* onDeleteTimeline argument: "absent", "returns", "throws" or "throwsOnBranch".
RECURSIVE DeleteNewTimelines(_, _, _, _)
DeleteNewTimelines(ids, reg, log, cb) ==
    IF ids = <<>>
    THEN [reg |-> reg, log |-> log, thrown |-> FALSE]
    ELSE LET newId == Head(ids)
         IN  IF newId \in DOMAIN reg
             THEN IF CallbackThrows(cb, newId, reg)
                  THEN [reg |-> reg,
                        log |-> Append(log, Event("callback", newId, reg)),
                        thrown |-> TRUE]
                  ELSE LET called == IF cb # "absent"
                                     THEN Append(log, Event("callback", newId, reg))
                                     ELSE log
                       IN  DeleteNewTimelines(Tail(ids), Without(reg, newId),
                               Append(called, Event("delete", newId, reg)), cb)
             ELSE DeleteNewTimelines(Tail(ids), reg, log, cb)

\* RestoreTimeline giving up on a timeline whose captured string does not load.
RestoreTimeline_StopOnFailedLoad(timeline, state) ==
    IF FenParses(state.fen)
    THEN [timeline EXCEPT
             !.chess = Load(timeline.chess, state.fen),
             !.moveHistory = deepCloneMoveHistory(state.moveHistory),
             !.snapshots = deepCloneSnapshots(state.snapshots)]
    ELSE timeline

\* RestoreTimeline putting a new object, built from the captured state, in
\* the place of the timeline.
RestoreTimeline_ReplacesObject(timeline, state) ==
    [id |-> state.id,
     chess |-> Load(timeline.chess, state.fen),
     moveHistory |-> deepCloneMoveHistory(state.moveHistory),
     snapshots |-> deepCloneSnapshots(state.snapshots),
     parentId |-> NullRef,
     branchTurn |-> 0,
     xOffset |-> 0,
     name |-> ""]

\* RestoreTimeline without the snapshot list.
RestoreTimeline_NoSnapshots(timeline, state) ==
    [timeline EXCEPT
        !.chess = Load(timeline.chess, state.fen),
        !.moveHistory = deepCloneMoveHistory(state.moveHistory)]

\* RestoreTimeline without the move history.
RestoreTimeline_NoMoveHistory(timeline, state) ==
    [timeline EXCEPT
        !.chess = Load(timeline.chess, state.fen),
        !.snapshots = deepCloneSnapshots(state.snapshots)]

RestoreTimeline(timeline, state) ==
    [timeline EXCEPT
        !.chess = Load(timeline.chess, state.fen),
        !.moveHistory = deepCloneMoveHistory(state.moveHistory),
        !.snapshots = deepCloneSnapshots(state.snapshots)]

\* Step 2 putting a captured timeline that is missing back into the registry.
RECURSIVE RestoreCaptured_Recreate(_, _, _)
RestoreCaptured_Recreate(states, reg, log) ==
    IF states = <<>>
    THEN [reg |-> reg, log |-> log, thrown |-> FALSE]
    ELSE LET state == Head(states)
             id == state.id
         IN  IF id \notin DOMAIN reg
             THEN RestoreCaptured_Recreate(Tail(states),
                      (id :> [id |-> id,
                              chess |-> ParseFen(state.fen),
                              moveHistory |-> deepCloneMoveHistory(state.moveHistory),
                              snapshots |-> deepCloneSnapshots(state.snapshots),
                              parentId |-> NullRef,
                              branchTurn |-> 0,
                              xOffset |-> 0,
                              name |-> ""]) @@ reg,
                      Append(log, Event("restore", id, reg)))
             ELSE RestoreCaptured_Recreate(Tail(states),
                      [reg EXCEPT ![id] = RestoreTimeline(reg[id], state)],
                      Append(log, Event("restore", id, reg)))

\* chess.load(fen) throws instead of returning false.
LoadThrows(s) == engine = "throws" /\ ~FenParses(s)

\* Step 2 of rollback: the loop over capturedStates.
RECURSIVE RestoreCaptured(_, _, _)
RestoreCaptured(states, reg, log) ==
    IF states = <<>>
    THEN [reg |-> reg, log |-> log, thrown |-> FALSE]
    ELSE LET state == Head(states)
             id == state.id
         IN  IF id \notin DOMAIN reg
             THEN RestoreCaptured(Tail(states), reg, Append(log, Event("skip", id, reg)))
             ELSE IF LoadThrows(state.fen)
             THEN [reg |-> reg,
                   log |-> Append(log, Event("load", id, reg)),
                   thrown |-> TRUE]
             ELSE RestoreCaptured(Tail(states),
                      [reg EXCEPT ![id] = RestoreTimeline(reg[id], state)],
                      Append(log, Event("restore", id, reg)))

----------------------------------------------------------------------------
(* Initial state: two timelines in the registry, one Open transaction *)

\* No view.
ViewIdle == timelineCols = <<>> /\ branchLineGroup = <<>> /\ calls = 0

\* The engine reports a string it cannot parse by the result of load().
RestIdle == engine = "reports" /\ ViewIdle

InitialTimelines ==
    (1 :> [id |-> 1,
           chess |-> Position("start", TRUE),
           moveHistory |-> <<MoveA>>,
           snapshots |-> <<ArraySnapshot(BoardA)>>,
           parentId |-> NullRef,
           branchTurn |-> 0,
           xOffset |-> 0,
           name |-> "Main"])
    @@
    (2 :> [id |-> 2,
           chess |-> Position("qqq", FALSE),
           moveHistory |-> <<>>,
           snapshots |-> <<>>,
           parentId |-> 1,
           branchTurn |-> 0,
           xOffset |-> 12,
           name |-> "Branch 1"])

Init ==
    /\ timelines = InitialTimelines
    /\ txn = [t \in TxIds |-> NewTransaction]
    /\ events = <<>>
    /\ outcome = Ok
    /\ created = {}
    /\ uncaptured = {}
    /\ steps = 0
    /\ RestIdle
    /\ pc = "try"
    /\ heap = <<>>
    /\ live = <<>>
    /\ saved = <<>>
    /\ arg = <<>>
    /\ result = <<>>

----------------------------------------------------------------------------
(* Methods of TimelineTransaction *)

\* captureTimeline capturing again a timeline that is already captured
\* (Map.set on an existing key replaces the value in place).
captureTimeline_Recapture(t, id, label) ==
    /\ id \in DOMAIN timelines
    /\ IF txn[t].committed \/ txn[t].rolledBack
       THEN /\ outcome' = ErrFinalized
            /\ UNCHANGED txn
       ELSE IF HasCaptured(t, id)
       THEN /\ txn' = [txn EXCEPT ![t].capturedStates =
                          [i \in 1..Len(@) |->
                              IF @[i].id = id
                              THEN TimelineState(id, timelines[id], label)
                              ELSE @[i]]]
            /\ outcome' = Ok
       ELSE /\ txn' = [txn EXCEPT ![t].capturedStates =
                          Append(@, TimelineState(id, timelines[id], label))]
            /\ outcome' = Ok
    /\ UNCHANGED <<timelines, events, created, uncaptured, steps>>
    /\ UNCHANGED aux

\* captureTimeline testing for an earlier capture before testing the flags.
captureTimeline_SkipBeforeCheck(t, id, label) ==
    /\ id \in DOMAIN timelines
    /\ IF HasCaptured(t, id)
       THEN /\ outcome' = AlreadyCaptured
            /\ UNCHANGED txn
       ELSE IF txn[t].committed \/ txn[t].rolledBack
       THEN /\ outcome' = ErrFinalized
            /\ UNCHANGED txn
       ELSE /\ txn' = [txn EXCEPT ![t].capturedStates =
                          Append(@, TimelineState(id, timelines[id], label))]
            /\ outcome' = Ok
    /\ UNCHANGED <<timelines, events, created, uncaptured, steps>>
    /\ UNCHANGED aux

\* captureTimeline refusing a timeline that was changed before its capture.
captureTimeline_RejectsMutated(t, id, label) ==
    /\ id \in DOMAIN timelines
    /\ IF txn[t].committed \/ txn[t].rolledBack
       THEN /\ outcome' = ErrFinalized
            /\ UNCHANGED txn
       ELSE IF HasCaptured(t, id)
       THEN /\ outcome' = AlreadyCaptured
            /\ UNCHANGED txn
       ELSE IF id \in uncaptured
       THEN /\ outcome' = "Error: timeline modified before capture"
            /\ UNCHANGED txn
       ELSE /\ txn' = [txn EXCEPT ![t].capturedStates =
                          Append(@, TimelineState(id, timelines[id], label))]
            /\ outcome' = Ok
    /\ UNCHANGED <<timelines, events, created, uncaptured, steps>>
    /\ UNCHANGED aux

captureTimeline(t, id, label) ==
    /\ id \in DOMAIN timelines
    /\ IF txn[t].committed \/ txn[t].rolledBack
       THEN /\ outcome' = ErrFinalized
            /\ UNCHANGED txn
       ELSE IF HasCaptured(t, id)
       THEN /\ outcome' = AlreadyCaptured
            /\ UNCHANGED txn
       ELSE /\ txn' = [txn EXCEPT ![t].capturedStates =
                          Append(@, TimelineState(id, timelines[id], label))]
            /\ outcome' = Ok
    /\ UNCHANGED <<timelines, events, created, uncaptured, steps>>
    /\ UNCHANGED aux

\* captureNewTimeline without the test of the flags.
captureNewTimeline_NoCheck(t, id) ==
    /\ Len(txn[t].newTimelineIds) < MaxNew
    /\ txn' = [txn EXCEPT ![t].newTimelineIds = Append(@, id)]
    /\ outcome' = Ok
    /\ UNCHANGED <<timelines, events, created, uncaptured, steps>>
    /\ UNCHANGED aux

captureNewTimeline(t, id) ==
    /\ IF txn[t].committed \/ txn[t].rolledBack
       THEN /\ outcome' = ErrFinalized
            /\ UNCHANGED txn
       ELSE /\ Len(txn[t].newTimelineIds) < MaxNew
            /\ txn' = [txn EXCEPT ![t].newTimelineIds = Append(@, id)]
            /\ outcome' = Ok
    /\ UNCHANGED <<timelines, events, created, uncaptured, steps>>
    /\ UNCHANGED aux

\* commit testing only the committed flag.
commit_ChecksCommittedOnly(t) ==
    /\ IF txn[t].committed
       THEN /\ outcome' = ErrFinalized
            /\ UNCHANGED txn
       ELSE /\ txn' = [txn EXCEPT ![t].committed = TRUE]
            /\ outcome' = Committed
    /\ UNCHANGED <<timelines, events, created, uncaptured, steps>>
    /\ UNCHANGED aux

\* commit dropping what the transaction recorded.
commit_ClearsCaptures(t) ==
    /\ IF txn[t].committed \/ txn[t].rolledBack
       THEN /\ outcome' = ErrFinalized
            /\ UNCHANGED txn
       ELSE /\ txn' = [txn EXCEPT ![t] =
                          [NewTransaction EXCEPT !.committed = TRUE]]
            /\ outcome' = Committed
    /\ UNCHANGED <<timelines, events, created, uncaptured, steps>>
    /\ UNCHANGED aux

\* commit removing the recorded timelines from the registry.
commit_DeletesRecorded(t) ==
    /\ IF txn[t].committed \/ txn[t].rolledBack
       THEN /\ outcome' = ErrFinalized
            /\ UNCHANGED <<txn, timelines>>
       ELSE /\ txn' = [txn EXCEPT ![t].committed = TRUE]
            /\ timelines' = [id \in (DOMAIN timelines) \ NewIds(t) |-> timelines[id]]
            /\ outcome' = Committed
    /\ UNCHANGED <<events, created, uncaptured, steps>>
    /\ UNCHANGED aux

commit(t) ==
    /\ IF txn[t].committed \/ txn[t].rolledBack
       THEN /\ outcome' = ErrFinalized
            /\ UNCHANGED txn
       ELSE /\ txn' = [txn EXCEPT ![t].committed = TRUE]
            /\ outcome' = Committed
    /\ UNCHANGED <<timelines, events, created, uncaptured, steps>>
    /\ UNCHANGED aux

\* rollback without the test of the committed flag.
rollback_NoCommittedCheck(t, cb) ==
    /\ IF txn[t].rolledBack
       THEN /\ outcome' = AlreadyRolledBack
            /\ UNCHANGED <<txn, timelines, events>>
       ELSE LET deleted == DeleteNewTimelines(txn[t].newTimelineIds, timelines,
                                              events, cb)
                restored == RestoreCaptured(txn[t].capturedStates, deleted.reg,
                                            deleted.log)
            IN  IF deleted.thrown
                THEN /\ timelines' = deleted.reg
                     /\ events' = deleted.log
                     /\ outcome' = ErrCallback
                     /\ UNCHANGED txn
                ELSE /\ timelines' = restored.reg
                     /\ events' = restored.log
                     /\ txn' = [txn EXCEPT ![t].rolledBack = TRUE]
                     /\ outcome' = RollbackComplete
    /\ UNCHANGED <<created, uncaptured, steps>>
    /\ UNCHANGED aux

\* rollback without the test of the rolledBack flag.
rollback_NoRolledBackCheck(t, cb) ==
    /\ IF txn[t].committed
       THEN /\ outcome' = ErrCommitted
            /\ UNCHANGED <<txn, timelines, events>>
       ELSE LET deleted == DeleteNewTimelines(txn[t].newTimelineIds, timelines,
                                              events, cb)
                restored == RestoreCaptured(txn[t].capturedStates, deleted.reg,
                                            deleted.log)
            IN  IF deleted.thrown
                THEN /\ timelines' = deleted.reg
                     /\ events' = deleted.log
                     /\ outcome' = ErrCallback
                     /\ UNCHANGED txn
                ELSE /\ timelines' = restored.reg
                     /\ events' = restored.log
                     /\ txn' = [txn EXCEPT ![t].rolledBack = TRUE]
                     /\ outcome' = RollbackComplete
    /\ UNCHANGED <<created, uncaptured, steps>>
    /\ UNCHANGED aux

\* rollback returning without setting the rolledBack flag.
rollback_LeavesOpen(t, cb) ==
    /\ IF txn[t].committed
       THEN /\ outcome' = ErrCommitted
            /\ UNCHANGED <<txn, timelines, events>>
       ELSE IF txn[t].rolledBack
       THEN /\ outcome' = AlreadyRolledBack
            /\ UNCHANGED <<txn, timelines, events>>
       ELSE LET deleted == DeleteNewTimelines(txn[t].newTimelineIds, timelines,
                                              events, cb)
                restored == RestoreCaptured(txn[t].capturedStates, deleted.reg,
                                            deleted.log)
            IN  /\ timelines' = restored.reg
                /\ events' = restored.log
                /\ outcome' = IF deleted.thrown THEN ErrCallback ELSE RollbackComplete
                /\ UNCHANGED txn
    /\ UNCHANGED <<created, uncaptured, steps>>
    /\ UNCHANGED aux

\* rollback returning at once, flag unset, when the transaction holds nothing.
rollback_EarlyReturnWhenEmpty(t, cb) ==
    /\ IF txn[t].committed
       THEN /\ outcome' = ErrCommitted
            /\ UNCHANGED <<txn, timelines, events>>
       ELSE IF txn[t].rolledBack
       THEN /\ outcome' = AlreadyRolledBack
            /\ UNCHANGED <<txn, timelines, events>>
       ELSE IF txn[t].capturedStates = <<>> /\ txn[t].newTimelineIds = <<>>
       THEN /\ outcome' = RollbackComplete
            /\ UNCHANGED <<txn, timelines, events>>
       ELSE LET deleted == DeleteNewTimelines(txn[t].newTimelineIds, timelines,
                                              events, cb)
                restored == RestoreCaptured(txn[t].capturedStates, deleted.reg,
                                            deleted.log)
            IN  IF deleted.thrown
                THEN /\ timelines' = deleted.reg
                     /\ events' = deleted.log
                     /\ outcome' = ErrCallback
                     /\ UNCHANGED txn
                ELSE /\ timelines' = restored.reg
                     /\ events' = restored.log
                     /\ txn' = [txn EXCEPT ![t].rolledBack = TRUE]
                     /\ outcome' = RollbackComplete
    /\ UNCHANGED <<created, uncaptured, steps>>
    /\ UNCHANGED aux

\* rollback of a transaction that detects conflicts: it leaves the timelines
\* alone when another transaction has committed.
rollback_YieldsToCommitted(t, cb) ==
    /\ IF txn[t].committed
       THEN /\ outcome' = ErrCommitted
            /\ UNCHANGED <<txn, timelines, events>>
       ELSE IF txn[t].rolledBack
       THEN /\ outcome' = AlreadyRolledBack
            /\ UNCHANGED <<txn, timelines, events>>
       ELSE IF \E u \in TxIds \ {t} : txn[u].committed
       THEN /\ txn' = [txn EXCEPT ![t].rolledBack = TRUE]
            /\ outcome' = RollbackComplete
            /\ UNCHANGED <<timelines, events>>
       ELSE LET deleted == DeleteNewTimelines(txn[t].newTimelineIds, timelines,
                                              events, cb)
                restored == RestoreCaptured(txn[t].capturedStates, deleted.reg,
                                            deleted.log)
            IN  IF deleted.thrown
                THEN /\ timelines' = deleted.reg
                     /\ events' = deleted.log
                     /\ outcome' = ErrCallback
                     /\ UNCHANGED txn
                ELSE /\ timelines' = restored.reg
                     /\ events' = restored.log
                     /\ txn' = [txn EXCEPT ![t].rolledBack = TRUE]
                     /\ outcome' = RollbackComplete
    /\ UNCHANGED <<created, uncaptured, steps>>
    /\ UNCHANGED aux

\* rollback setting rolledBack before the two steps.
rollback_FlagFirst(t, cb) ==
    /\ IF txn[t].committed
       THEN /\ outcome' = ErrCommitted
            /\ UNCHANGED <<txn, timelines, events>>
       ELSE IF txn[t].rolledBack
       THEN /\ outcome' = AlreadyRolledBack
            /\ UNCHANGED <<txn, timelines, events>>
       ELSE LET deleted == DeleteNewTimelines(txn[t].newTimelineIds, timelines,
                                              events, cb)
                restored == RestoreCaptured(txn[t].capturedStates, deleted.reg,
                                            deleted.log)
            IN  /\ txn' = [txn EXCEPT ![t].rolledBack = TRUE]
                /\ IF deleted.thrown
                   THEN /\ timelines' = deleted.reg
                        /\ events' = deleted.log
                        /\ outcome' = ErrCallback
                   ELSE IF restored.thrown
                   THEN /\ timelines' = restored.reg
                        /\ events' = restored.log
                        /\ outcome' = ErrLoad
                   ELSE /\ timelines' = restored.reg
                        /\ events' = restored.log
                        /\ outcome' = RollbackComplete
    /\ UNCHANGED <<created, uncaptured, steps>>
    /\ UNCHANGED aux

rollback(t, cb) ==
    /\ IF txn[t].committed
       THEN /\ outcome' = ErrCommitted
            /\ UNCHANGED <<txn, timelines, events>>
       ELSE IF txn[t].rolledBack
       THEN /\ outcome' = AlreadyRolledBack
            /\ UNCHANGED <<txn, timelines, events>>
       ELSE LET deleted == DeleteNewTimelines(txn[t].newTimelineIds, timelines,
                                              events, cb)
                restored == RestoreCaptured(txn[t].capturedStates, deleted.reg,
                                            deleted.log)
            IN  IF deleted.thrown
                THEN /\ timelines' = deleted.reg
                     /\ events' = deleted.log
                     /\ outcome' = ErrCallback
                     /\ UNCHANGED txn
                ELSE IF restored.thrown
                THEN /\ timelines' = restored.reg
                     /\ events' = restored.log
                     /\ outcome' = ErrLoad
                     /\ UNCHANGED txn
                ELSE /\ timelines' = restored.reg
                     /\ events' = restored.log
                     /\ txn' = [txn EXCEPT ![t].rolledBack = TRUE]
                     /\ outcome' = RollbackComplete
    /\ UNCHANGED <<created, uncaptured, steps>>
    /\ UNCHANGED aux

----------------------------------------------------------------------------
(* The steps of an operation that change the registry *)

Mutated(id) ==
    /\ ~txn[1].committed
    /\ steps < MaxSteps
    /\ steps' = steps + 1
    /\ uncaptured' = IF HasCaptured(1, id) \/ id \in created \/ isFinalized(1)
                     THEN uncaptured
                     ELSE uncaptured \cup {id}
    /\ outcome' = Ok
    /\ UNCHANGED <<txn, events, created>>
    /\ UNCHANGED aux

\* A move applied to a timeline: the engine advances, the move and a snapshot
\* of the resulting position are appended.
applyMove(id, p, m) ==
    /\ id \in DOMAIN timelines
    /\ p # timelines[id].chess
    /\ timelines' = [timelines EXCEPT
                        ![id].chess = p,
                        ![id].moveHistory = Append(@, m),
                        ![id].snapshots = Append(@, SnapshotOf(p))]
    /\ Mutated(id)

\* The first half of a move that fails midway: the move is appended, the
\* snapshot is not.
PushMove(id, m) ==
    /\ id \in DOMAIN timelines
    /\ timelines' = [timelines EXCEPT ![id].moveHistory = Append(@, m)]
    /\ Mutated(id)

\* A snapshot appended on its own.
PushSnapshot(id, p) ==
    /\ id \in DOMAIN timelines
    /\ timelines' = [timelines EXCEPT ![id].snapshots = Append(@, SnapshotOf(p))]
    /\ Mutated(id)

\* The bookkeeping of a timeline changed by the operation: the new values.
Bookkeeping ==
    [parentId |-> 2, branchTurn |-> 1, xOffset |-> 36, name |-> "Renamed"]

EditBookkeeping(id, field) ==
    /\ id \in DOMAIN timelines
    /\ field \in DOMAIN Bookkeeping
    /\ timelines[id][field] # Bookkeeping[field]
    /\ timelines' = [timelines EXCEPT ![id][field] = Bookkeeping[field]]
    /\ Mutated(id)

CreateTimeline(id, parent) ==
    /\ id \notin DOMAIN timelines
    /\ parent \in DOMAIN timelines
    /\ ~txn[1].committed
    /\ steps < MaxSteps
    /\ timelines' = (id :> [id |-> id,
                            chess |-> timelines[parent].chess,
                            moveHistory |-> <<>>,
                            snapshots |-> <<>>,
                            parentId |-> parent,
                            branchTurn |-> Len(timelines[parent].snapshots),
                            xOffset |-> 24,
                            name |-> "Branch 2"]) @@ timelines
    /\ created' = IF isFinalized(1) THEN created ELSE created \cup {id}
    /\ steps' = steps + 1
    /\ outcome' = Ok
    /\ UNCHANGED <<txn, events, uncaptured>>
    /\ UNCHANGED aux

\* A timeline removed from the registry by code outside the transaction.
DeleteTimeline(id) ==
    /\ id \in DOMAIN timelines
    /\ ~txn[1].committed
    /\ steps < MaxSteps
    /\ timelines' = Without(timelines, id)
    /\ steps' = steps + 1
    /\ outcome' = Ok
    /\ UNCHANGED <<txn, events, created, uncaptured>>
    /\ UNCHANGED aux

----------------------------------------------------------------------------
(* Specification: one move request with its transaction; the delete         *)
(* callback, when given, returns.                                           *)

CallbackKinds == {"absent", "returns"}

\* The ids the caller records as new: the id of a timeline that exists at the
\* start and the id that is free for a timeline the operation creates.
RecordedIds == {1, 3}

\* The timeline new timelines branch from.
BranchParent == 2

\* The label the caller passes: 'source' for the first timeline it captures,
\* 'target' for the calls after it.
CallerLabel(t) == IF txn[t].capturedStates = <<>> THEN "source" ELSE "target"

Next ==
    \/ \E id \in Ids : captureTimeline(1, id, CallerLabel(1))
    \/ \E id \in RecordedIds : captureNewTimeline(1, id)
    \/ commit(1)
    \/ \E cb \in CallbackKinds : rollback(1, cb)
    \/ \E id \in Ids, p \in Positions : applyMove(id, p, NewMove)
    \/ \E id \in Ids : CreateTimeline(id, BranchParent)

Spec == Init /\ [][Next]_vars

\* The same request with positions whose string does not load.
FaultPositions == Positions \cup {Kingless}

\* The caller records a timeline once.
NextFault ==
    \/ \E id \in Ids : captureTimeline(1, id, CallerLabel(1))
    \/ \E id \in RecordedIds \ NewIds(1) : captureNewTimeline(1, id)
    \/ commit(1)
    \/ \E cb \in CallbackKinds : rollback(1, cb)
    \/ \E id \in Ids, p \in FaultPositions : applyMove(id, p, NewMove)
    \/ \E id \in Ids : CreateTimeline(id, BranchParent)

SpecFault == Init /\ [][NextFault]_vars

\* The same request with steps that change one of the two lists only.
NextLists ==
    \/ \E id \in Ids : captureTimeline(1, id, CallerLabel(1))
    \/ commit(1)
    \/ \E cb \in CallbackKinds : rollback(1, cb)
    \/ \E id \in Ids : PushMove(id, NewMove)
    \/ \E id \in Ids : PushSnapshot(id, Position("qqq", FALSE))

SpecLists == Init /\ [][NextLists]_vars

\* The same request when the callback or the engine can throw: rollback is
\* called again after a call that ended with an exception.
MaxAttempts == 2  \* rollback calls that end with an exception

\* The callbacks given to rollback here: one that returns, one that throws,
\* one that throws for a timeline that has a parent.
ThrowKinds == {"returns", "throws", "throwsOnBranch"}

Engines == {"reports", "throws"}

\* rollback calls that ended with an exception so far.
Thrown ==
    {i \in 1..Len(events) :
        \/ events[i].kind = "load"
        \/ /\ events[i].kind = "callback"
           /\ (i = Len(events) \/ events[i + 1].kind # "delete")}

InitThrow ==
    /\ timelines = InitialTimelines
    /\ txn = [t \in TxIds |-> NewTransaction]
    /\ events = <<>>
    /\ outcome = Ok
    /\ created = {}
    /\ uncaptured = {}
    /\ steps = 0
    /\ pc = "try"
    /\ heap = <<>>
    /\ live = <<>>
    /\ saved = <<>>
    /\ arg = <<>>
    /\ result = <<>>
    /\ engine \in Engines
    /\ ViewIdle

\* The caller records a timeline once.
NextThrow ==
    \/ \E id \in Ids : captureTimeline(1, id, CallerLabel(1))
    \/ \E id \in RecordedIds \ NewIds(1) : captureNewTimeline(1, id)
    \/ commit(1)
    \/ \E cb \in ThrowKinds :
           Cardinality(Thrown) < MaxAttempts /\ rollback(1, cb)
    \/ \E id \in Ids : applyMove(id, Kingless, NewMove)
    \/ \E id \in Ids : CreateTimeline(id, BranchParent)

SpecThrow == InitThrow /\ [][NextThrow]_vars

\* The same request with steps that change a timeline's bookkeeping.
NextFrame ==
    \/ \E id \in Ids : captureTimeline(1, id, CallerLabel(1))
    \/ \E id \in RecordedIds : captureNewTimeline(1, id)
    \/ commit(1)
    \/ \E cb \in CallbackKinds : rollback(1, cb)
    \/ \E id \in Ids, p \in Positions : applyMove(id, p, NewMove)
    \/ \E id \in Ids, field \in DOMAIN Bookkeeping : EditBookkeeping(id, field)

SpecFrame == Init /\ [][NextFrame]_vars

\* The same request on a registry that other code removes timelines from.
NextExternal ==
    \/ Next
    \/ \E id \in Ids : DeleteTimeline(id)

SpecExternal == Init /\ [][NextExternal]_vars

----------------------------------------------------------------------------
(* The usage the class documents (lines 8-19): captures and mutations      *)
(* inside try, commit() as the last statement of try, rollback in catch    *)
(* before the error is thrown again.  pc is "try", "catch", and then        *)
(* "returned" or "thrown" when the request is over.                         *)

ErrStep == "Error: thrown by a step of the operation"

\* Control is inside the try block, before commit().
InTry == pc = "try" /\ outcome \notin {Committed, ErrStep} \cup Errors

TryCapture(id) == InTry /\ captureTimeline(1, id, CallerLabel(1))

TryRecord(id) == InTry /\ captureNewTimeline(1, id)

TryMove(id, p) == InTry /\ applyMove(id, p, NewMove)

TryCreate(id) == InTry /\ CreateTimeline(id, BranchParent)

TryCommit == InTry /\ commit(1)

\* A statement of the try block throws: control goes to the catch clause.
StepFails ==
    /\ InTry
    /\ outcome' = ErrStep
    /\ pc' = "catch"
    /\ UNCHANGED <<timelines, txn, events, created, uncaptured, steps,
                   heap, live, saved, arg, result, rest>>

\* The try block ends after commit(): the request returns.
Return ==
    /\ pc = "try"
    /\ outcome = Committed
    /\ pc' = "returned"
    /\ UNCHANGED <<timelines, txn, events, outcome, created, uncaptured, steps,
                   heap, live, saved, arg, result, rest>>

\* The catch clause: transaction.rollback(...)
CatchRollback(cb) == pc = "catch" /\ outcome = ErrStep /\ rollback(1, cb)

\* The catch clause: throw error (or the error rollback threw leaves it).
Rethrow ==
    /\ pc = "catch"
    /\ outcome # ErrStep
    /\ pc' = "thrown"
    /\ UNCHANGED <<timelines, txn, events, outcome, created, uncaptured, steps,
                   heap, live, saved, arg, result, rest>>

NextRequest ==
    \/ \E id \in Ids : TryCapture(id)
    \/ \E id \in RecordedIds : TryRecord(id)
    \/ \E id \in Ids, p \in Positions : TryMove(id, p)
    \/ \E id \in Ids : TryCreate(id)
    \/ TryCommit
    \/ StepFails
    \/ Return
    \/ \E cb \in CallbackKinds : CatchRollback(cb)
    \/ Rethrow

\* The request runs synchronously to its end.
SpecRequest == Init /\ [][NextRequest]_vars /\ WF_vars(NextRequest)

----------------------------------------------------------------------------
(* Two requests on one registry, each with its own transaction.  Nothing in *)
(* the class refers to another transaction, so their calls interleave       *)
(* freely unless the callers serialize them.  pc.began holds the requests   *)
(* that constructed their transaction, pc.overlapped whether a request      *)
(* began while the other was in flight.  Request 1 is the one that mutates. *)

InFlight(t) == t \in pc.began /\ ~isFinalized(t)

InitConcurrent ==
    /\ timelines = InitialTimelines
    /\ txn = [t \in TxIds |-> NewTransaction]
    /\ events = <<>>
    /\ outcome = Ok
    /\ created = {}
    /\ uncaptured = {}
    /\ steps = 0
    /\ RestIdle
    /\ pc = [began |-> {}, overlapped |-> FALSE]
    /\ heap = <<>>
    /\ live = <<>>
    /\ saved = <<>>
    /\ arg = <<>>
    /\ result = <<>>

\* new TimelineTransaction()
Begin(t) ==
    /\ t \notin pc.began
    /\ pc' = [began |-> pc.began \cup {t},
              overlapped |-> pc.overlapped \/ \E u \in TxIds \ {t} : InFlight(u)]
    /\ UNCHANGED <<timelines, txn, events, outcome, created, uncaptured, steps,
                   heap, live, saved, arg, result, rest>>

NextConcurrent ==
    \/ \E t \in TxIds : Begin(t)
    \/ \E t \in TxIds, id \in Ids :
           InFlight(t) /\ captureTimeline(t, id, CallerLabel(t))
    \/ \E id \in Ids, p \in Positions :
           InFlight(1) /\ applyMove(id, p, NewMove)
    \/ \E t \in TxIds : InFlight(t) /\ commit(t)
    \/ \E t \in TxIds, cb \in CallbackKinds : InFlight(t) /\ rollback(t, cb)

SpecConcurrent == InitConcurrent /\ [][NextConcurrent]_vars

----------------------------------------------------------------------------
(* The same helpers on objects held by reference.  An object lives at an    *)
(* address of the heap; an array holds the addresses of its elements, a     *)
(* board cell holds the address of a piece object or NullRef.  Assigning or *)
(* pushing in place changes the object at its address, for every holder of  *)
(* that address.                                                            *)

MaxMoves == 2     \* longest move history pushed to in place

ArrayObject(items) == [kind |-> "array", items |-> items]

MoveObject(m) == [kind |-> "move", move |-> m]

PieceObject(p) == [kind |-> "piece", piece |-> p]

SnapshotObject(f, b) == [kind |-> "snapshot", fen |-> f, board |-> b]

\* new object: the heap with the object added, and its address.
Alloc(h, obj) == [heap |-> Append(h, obj), addr |-> Len(h) + 1]

RECURSIVE CloneMoves(_, _, _)
CloneMoves(h, items, acc) ==
    IF items = <<>>
    THEN Alloc(h, ArrayObject(acc))
    ELSE LET m == h[Head(items)].move
             a == Alloc(h, MoveObject([from |-> m.from,
                                       to |-> m.to,
                                       piece |-> m.piece,
                                       captured |-> m.captured,
                                       san |-> m.san,
                                       isWhite |-> m.isWhite,
                                       promotion |-> m.promotion]))
         IN  CloneMoves(a.heap, Tail(items), Append(acc, a.addr))

\* A copy of the array that holds the same move objects (moves.slice()).
deepCloneMoveHistoryAt_Shallow(h, moves) == Alloc(h, ArrayObject(h[moves].items))

deepCloneMoveHistoryAt(h, moves) == CloneMoves(h, h[moves].items, <<>>)

\* The inner loop of deepCloneBoard: row is the source row's cells (none when
\* the source has no such row), c the column reached.
RECURSIVE CloneCells(_, _, _, _)
CloneCells(h, row, c, acc) ==
    IF c = BoardSize
    THEN [heap |-> h, items |-> acc]
    ELSE LET p == IF (c + 1) \in DOMAIN row THEN row[c + 1] ELSE NullRef
         IN  IF p # NullRef
             THEN LET a == Alloc(h, PieceObject([type |-> h[p].piece.type,
                                                 color |-> h[p].piece.color]))
                  IN  CloneCells(a.heap, row, c + 1, Append(acc, a.addr))
             ELSE CloneCells(h, row, c + 1, Append(acc, NullRef))

\* The outer loop of deepCloneBoard.
RECURSIVE CloneRows(_, _, _, _)
CloneRows(h, rows, r, acc) ==
    IF r = BoardSize
    THEN Alloc(h, ArrayObject(acc))
    ELSE LET row == IF (r + 1) \in DOMAIN rows THEN h[rows[r + 1]].items ELSE <<>>
             cells == CloneCells(h, row, 0, <<>>)
             a == Alloc(cells.heap, ArrayObject(cells.items))
         IN  CloneRows(a.heap, rows, r + 1, Append(acc, a.addr))

deepCloneBoardAt(h, board) == CloneRows(h, h[board].items, 0, <<>>)

deepCloneSnapshotAt(h, snapshot) ==
    IF h[snapshot].kind = "array"
    THEN deepCloneBoardAt(h, snapshot)
    ELSE LET b == deepCloneBoardAt(h, h[snapshot].board)
         IN  Alloc(b.heap, SnapshotObject(h[snapshot].fen, b.addr))

RECURSIVE CloneSnapshots(_, _, _)
CloneSnapshots(h, items, acc) ==
    IF items = <<>>
    THEN Alloc(h, ArrayObject(acc))
    ELSE LET a == deepCloneSnapshotAt(h, Head(items))
         IN  CloneSnapshots(a.heap, Tail(items), Append(acc, a.addr))

deepCloneSnapshotsAt(h, snapshots) == CloneSnapshots(h, h[snapshots].items, <<>>)

\* The timeline's objects at the start: a history of one move, an old-format
\* snapshot (the board BoardA) and a new-format one ({fen, board} with BoardB).
\* Addresses 1..8 are the rows of the first board, 9 the board, 10 its king;
\* 11..18 the rows of the second board, 19 the board, 20 and 21 its pieces.
InitialHeap ==
    [a \in 1..25 |->
        CASE a \in 1..8 ->
                ArrayObject([c \in 1..BoardSize |->
                                IF a = 1 /\ c = 5 THEN 10 ELSE NullRef])
          [] a = 9 -> ArrayObject([r \in 1..BoardSize |-> r])
          [] a = 10 -> PieceObject(BlackKing)
          [] a \in 11..18 ->
                ArrayObject([c \in 1..BoardSize |->
                                IF a = 11 /\ c = 5 THEN 20
                                ELSE IF a = 18 /\ c = 4 THEN 21 ELSE NullRef])
          [] a = 19 -> ArrayObject([r \in 1..BoardSize |-> 10 + r])
          [] a = 20 -> PieceObject(BlackKing)
          [] a = 21 -> PieceObject(WhiteQueen)
          [] a = 22 -> SnapshotObject(Fen(Position("qqq", FALSE)), 19)
          [] a = 23 -> MoveObject(MoveA)
          [] a = 24 -> ArrayObject(<<23>>)
          [] a = 25 -> ArrayObject(<<9, 22>>)]

InitialLive == [chess |-> Position("qqq", FALSE), moveHistory |-> 24, snapshots |-> 25]

InitHeap ==
    /\ timelines = InitialTimelines
    /\ txn = [t \in TxIds |-> NewTransaction]
    /\ events = <<>>
    /\ outcome = Ok
    /\ created = {}
    /\ uncaptured = {}
    /\ steps = 0
    /\ RestIdle
    /\ pc = "open"
    /\ heap = InitialHeap
    /\ live = InitialLive
    /\ saved = <<>>
    /\ arg = <<>>
    /\ result = <<>>

HeapFrame == UNCHANGED <<timelines, txn, events, outcome, created, uncaptured, arg, result, rest>>

\* captureTimeline, lines 69-77: the state holds the string and the two clones.
captureTimelineAt ==
    /\ pc = "open"
    /\ LET moves == deepCloneMoveHistoryAt(heap, live.moveHistory)
           snaps == deepCloneSnapshotsAt(moves.heap, live.snapshots)
       IN  /\ heap' = snaps.heap
           /\ saved' = [fen |-> Fen(live.chess),
                        moveHistory |-> moves.addr,
                        snapshots |-> snaps.addr]
    /\ pc' = "captured"
    /\ UNCHANGED <<live, steps>>
    /\ HeapFrame

\* rollback, lines 166-176: the timeline's fields are assigned fresh clones.
rollbackAt ==
    /\ pc = "captured"
    /\ LET moves == deepCloneMoveHistoryAt(heap, saved.moveHistory)
           snaps == deepCloneSnapshotsAt(moves.heap, saved.snapshots)
       IN  /\ heap' = snaps.heap
           /\ live' = [chess |-> Load(live.chess, saved.fen),
                       moveHistory |-> moves.addr,
                       snapshots |-> snaps.addr]
    /\ pc' = "rolledBack"
    /\ UNCHANGED <<saved, steps>>
    /\ HeapFrame

\* In-place mutations of the timeline, made after its capture.
Edited ==
    /\ pc # "open"
    /\ steps < MaxSteps
    /\ steps' = steps + 1
    /\ UNCHANGED <<pc, live, saved>>
    /\ HeapFrame

\* timeline.moveHistory.push(move)
PushMoveInPlace ==
    /\ Len(heap[live.moveHistory].items) < MaxMoves
    /\ LET a == Alloc(heap, MoveObject(NewMove))
       IN  heap' = [a.heap EXCEPT ![live.moveHistory].items = Append(@, a.addr)]
    /\ Edited

\* timeline.moveHistory[i].san = ...
EditMoveInPlace(i) ==
    /\ i \in DOMAIN heap[live.moveHistory].items
    /\ heap[heap[live.moveHistory].items[i]].move.san # "edited"
    /\ heap' = [heap EXCEPT ![heap[live.moveHistory].items[i]].move.san = "edited"]
    /\ Edited

\* timeline.snapshots.pop()
PopSnapshotInPlace ==
    /\ heap[live.snapshots].items # <<>>
    /\ heap' = [heap EXCEPT ![live.snapshots].items = SubSeq(@, 1, Len(@) - 1)]
    /\ Edited

\* The board of a snapshot, whichever its format.
BoardAt(h, snapshot) ==
    IF h[snapshot].kind = "array" THEN snapshot ELSE h[snapshot].board

CellAt(h, snapshot, r, c) == h[h[BoardAt(h, snapshot)].items[r + 1]].items[c + 1]

\* board[r][c] = null on the board of the timeline's i-th snapshot
ClearCellInPlace(i, r, c) ==
    /\ i \in DOMAIN heap[live.snapshots].items
    /\ LET snapshot == heap[live.snapshots].items[i]
       IN  /\ CellAt(heap, snapshot, r, c) # NullRef
           /\ heap' = [heap EXCEPT
                          ![heap[BoardAt(heap, snapshot)].items[r + 1]].items[c + 1] =
                              NullRef]
    /\ Edited

\* board[r][c].type = 'n' on the board of the timeline's i-th snapshot
EditPieceInPlace(i, r, c) ==
    /\ i \in DOMAIN heap[live.snapshots].items
    /\ LET snapshot == heap[live.snapshots].items[i]
           cell == CellAt(heap, snapshot, r, c)
       IN  /\ cell # NullRef
           /\ heap[cell].piece.type # "n"
           /\ heap' = [heap EXCEPT ![cell].piece.type = "n"]
    /\ Edited

SnapshotIndices == 1..2

NextHeap ==
    \/ captureTimelineAt
    \/ rollbackAt
    \/ PushMoveInPlace
    \/ \E i \in 1..MaxMoves : EditMoveInPlace(i)
    \/ PopSnapshotInPlace
    \/ \E i \in SnapshotIndices, r \in Rows, c \in Rows : ClearCellInPlace(i, r, c)
    \/ \E i \in SnapshotIndices, r \in Rows, c \in Rows : EditPieceInPlace(i, r, c)

SpecHeap == InitHeap /\ [][NextHeap]_vars

----------------------------------------------------------------------------
(* The snapshot helpers applied to snapshot lists: a capture clones the     *)
(* timeline's list, a rollback clones the captured list.                    *)

\* Boards with one piece, on any square.
OnePieceBoards ==
    {[EmptyBoard EXCEPT ![r][c] = p] : r \in Rows, c \in Rows, p \in {WhiteQueen, BlackKing}}

\* Snapshots of both formats.
SnapshotInputs ==
    {ArraySnapshot(b) : b \in OnePieceBoards \cup {EmptyBoard, BoardB}}
        \cup {ObjectSnapshot(Fen(p), b) : p \in Positions, b \in {BoardA, BoardB}}

\* Snapshot lists: empty, of one snapshot, and of two in both formats.
SnapshotLists ==
    {<<>>} \cup {<<s>> : s \in SnapshotInputs}
           \cup {<<ArraySnapshot(BoardA), ObjectSnapshot(Fen(p), BoardB)>> : p \in Positions}
           \cup {<<ObjectSnapshot(Fen(p), BoardA), ArraySnapshot(BoardB)>> : p \in Positions}

InitClone ==
    /\ timelines = InitialTimelines
    /\ txn = [t \in TxIds |-> NewTransaction]
    /\ events = <<>>
    /\ outcome = Ok
    /\ created = {}
    /\ uncaptured = {}
    /\ steps = 0
    /\ RestIdle
    /\ pc = "open"
    /\ heap = <<>>
    /\ live = <<>>
    /\ saved = <<>>
    /\ arg \in SnapshotLists
    /\ result = <<>>

CloneFrame ==
    UNCHANGED <<timelines, txn, events, outcome, created, uncaptured, steps,
                heap, live, saved, arg, rest>>

\* captureTimeline, line 73: state.snapshots
CaptureSnapshots ==
    /\ pc = "open"
    /\ result' = deepCloneSnapshots(arg)
    /\ pc' = "captured"
    /\ CloneFrame

\* rollback, line 176: timeline.snapshots
RestoreSnapshots ==
    /\ pc = "captured"
    /\ result' = deepCloneSnapshots(result)
    /\ pc' = "restored"
    /\ CloneFrame

NextClone == CaptureSnapshots \/ RestoreSnapshots

SpecClone == InitClone /\ [][NextClone]_vars

----------------------------------------------------------------------------
(* Square names of TimelineCol and Board3DManager (board3d).  A string is   *)
(* the sequence of its character codes.                                     *)

CodeOfA == 97

\* String(n) for a number of one decimal digit or more.
RECURSIVE NumberToString(_)
NumberToString(n) ==
    IF n < 10 THEN <<48 + n>> ELSE Append(NumberToString(n \div 10), 48 + (n % 10))

NaN == "NaN"

\* parseInt(ch) for a string of one character.
parseInt(ch) == IF ch \in 48..57 THEN ch - 48 ELSE NaN

\* TimelineCol._toSq
toSq(r, c) == <<CodeOfA + c>> \o NumberToString(BoardSize - r)

\* _fromSq taking the rank digit for the row.
fromSq_Unflipped(sq) == [r |-> parseInt(sq[2]) - 1, c |-> sq[1] - CodeOfA]

\* TimelineCol._fromSq
fromSq(sq) == [r |-> BoardSize - parseInt(sq[2]), c |-> sq[1] - CodeOfA]

\* Board3DManager._fromSq
Board3DManager_fromSq(sq) == [r |-> BoardSize - parseInt(sq[2]), c |-> sq[1] - CodeOfA]

\* TimelineCol._sqToWorld: x and z, in halves of a unit.
sqToWorld(xOffset, sq) ==
    LET p == fromSq(sq)
    IN  [x2 |-> 2 * p.c - 7 + 2 * xOffset, z2 |-> 2 * p.r - 7]

\* Board3DManager._squareToWorld: x and z, in halves of a unit.
squareToWorld(xOffset, square) ==
    LET c == square[1] - CodeOfA
        r == BoardSize - parseInt(square[2])
    IN  [x2 |-> 2 * xOffset + 2 * c - 7, z2 |-> 2 * r - 7]

\* The names a1..h8.
SquareNames == {<<f, d>> : f \in 97..104, d \in 49..56}

Coordinates == {[r |-> r, c |-> c] : r \in Rows, c \in Rows}

XOffsets == {0, 12}

NoSquare == [sq |-> <<>>, col |-> <<>>, mgr |-> <<>>, world |-> <<>>, mgrWorld |-> <<>>]

InitSquares ==
    /\ timelines = InitialTimelines
    /\ txn = [t \in TxIds |-> NewTransaction]
    /\ events = <<>>
    /\ outcome = Ok
    /\ created = {}
    /\ uncaptured = {}
    /\ steps = 0
    /\ RestIdle
    /\ pc = "open"
    /\ heap = <<>>
    /\ live = <<>>
    /\ saved = <<>>
    /\ arg \in {[kind |-> "rc", rc |-> p, sq |-> <<>>, xOffset |-> x] :
                    p \in Coordinates, x \in XOffsets}
            \cup {[kind |-> "name", rc |-> <<>>, sq |-> n, xOffset |-> x] :
                    n \in SquareNames, x \in XOffsets}
    /\ result = NoSquare

SquaresFrame ==
    UNCHANGED <<timelines, txn, events, outcome, created, uncaptured, steps,
                heap, live, saved, arg, rest>>

\* What the two classes make of a name.
Parsed(x, sq) ==
    [col |-> fromSq(sq),
     mgr |-> Board3DManager_fromSq(sq),
     world |-> sqToWorld(x, sq),
     mgrWorld |-> squareToWorld(x, sq)]

NameSquare ==
    /\ pc = "open" /\ arg.kind = "rc"
    /\ result' = [result EXCEPT !.sq = toSq(arg.rc.r, arg.rc.c)]
    /\ pc' = "named"
    /\ SquaresFrame

ParseNamed ==
    /\ pc = "named"
    /\ result' = [sq |-> result.sq] @@ Parsed(arg.xOffset, result.sq)
    /\ pc' = "done"
    /\ SquaresFrame

ParseSquare ==
    /\ pc = "open" /\ arg.kind = "name"
    /\ result' = [sq |-> <<>>] @@ Parsed(arg.xOffset, arg.sq)
    /\ pc' = "parsed"
    /\ SquaresFrame

NameParsed ==
    /\ pc = "parsed"
    /\ result' = [result EXCEPT !.sq = toSq(result.col.r, result.col.c)]
    /\ pc' = "done"
    /\ SquaresFrame

NextSquares == NameSquare \/ ParseNamed \/ ParseSquare \/ NameParsed

SpecSquares == InitSquares /\ [][NextSquares]_vars

----------------------------------------------------------------------------
(* The 3D view: TimelineCol and Board3DManager.  A THREE object lives at an *)
(* address of its column's objects; a Group holds the addresses of its      *)
(* children, a child the address of its parent.  Lengths are in thousandths *)
(* of a unit, opacities in ten-thousandths.                                 *)

MAX_LAYERS == 12

LAYER_GAP == 2800

Vector3(x, y, z) == [x |-> x, y |-> y, z |-> z]

Material(color, transparent, opacity, map) ==
    [color |-> color, emissive |-> "000000", transparent |-> transparent,
     opacity |-> opacity, map |-> map]

NoMaterial == Material("", FALSE, 10000, Null)

NoUserData == [isHistory |-> FALSE]

Object3D(kind, geometry, position, userData, material) ==
    [kind |-> kind,
     geometry |-> geometry,
     position |-> position,
     userData |-> userData,
     material |-> material,
     parent |-> NullRef,
     children |-> <<>>]

Group(y) == Object3D("Group", "", Vector3(0, y, 0), NoUserData, NoMaterial)

\* userData.f as a condition: a missing field is undefined.
Flag(userData, f) == f \in DOMAIN userData /\ userData[f]

Range(seq) == {seq[i] : i \in 1..Len(seq)}

Abs(n) == IF n < 0 THEN -n ELSE n

\* parent.add(child) for a child that has no parent.
Add(os, parent, child) ==
    [os EXCEPT ![parent].children = Append(@, child), ![child].parent = parent]

\* parent.remove(child), for every child of the set.
RemoveAll(os, parent, gone) ==
    LET Stays(u) == u \notin gone
    IN  [u \in DOMAIN os |->
            IF u = parent
            THEN [os[u] EXCEPT !.children = SelectSeq(@, Stays)]
            ELSE IF u \in gone /\ os[u].parent = parent
            THEN [os[u] EXCEPT !.parent = NullRef]
            ELSE os[u]]

\* parent.add(child) for new objects, in order: the objects afterwards.
\* The addresses AddNew gives the new objects.
NewRefs(os, new) == [i \in 1..Len(new) |-> Len(os) + i]

AddNew(os, parent, new) ==
    [u \in 1..(Len(os) + Len(new)) |->
        IF u = parent
        THEN [os[u] EXCEPT !.children = @ \o NewRefs(os, new)]
        ELSE IF u <= Len(os)
        THEN os[u]
        ELSE [new[u - Len(os)] EXCEPT !.parent = parent]]

\* The cells of a board in the order of the loops: r outside, c inside.
CellRow(k) == (k - 1) \div BoardSize

CellCol(k) == (k - 1) % BoardSize

Cells == [k \in 1..(BoardSize * BoardSize) |-> k]

\* _buildBoard, lines 130-153: the square of row r, column c.
SquareMesh(id, r, c) ==
    LET color == IF (r + c) % 2 = 0 THEN "7575a8" ELSE "44446e"
    IN  Object3D("Mesh", "PlaneGeometry",
                 Vector3(c * 1000 - 3500, 35, r * 1000 - 3500),
                 [square |-> toSq(r, c),
                  row |-> r,
                  col |-> c,
                  origColor |-> color,
                  timelineId |-> id,
                  turn |-> -1],
                 Material(color, FALSE, 10000, Null))

\* _addLabels: the file label and the rank label of index i.
FileLabel(i) ==
    Object3D("Sprite", "", Vector3(i * 1000 - 3500, 50, 4400), NoUserData,
             Material("7777aa", TRUE, 10000, <<CodeOfA + i>>))

RankLabel(i) ==
    Object3D("Sprite", "", Vector3(-4400, 50, i * 1000 - 3500), NoUserData,
             Material("7777aa", TRUE, 10000, NumberToString(BoardSize - i)))

\* TimelineCol._addLabels: the sprites in the order they are added.
addLabels ==
    [k \in 1..(2 * BoardSize) |->
        IF k % 2 = 1 THEN FileLabel((k - 1) \div 2) ELSE RankLabel((k - 1) \div 2)]

\* new TimelineCol(scene, id, xOffset, ...): the constructor and _buildBoard.
\* The group is object 1, moveLineGroup 2, interLayerGroup 3.
NewTimelineCol(id, xOffset) ==
    LET group == [Group(0) EXCEPT !.position.x = xOffset * 1000]
        base == Object3D("Mesh", "BoxGeometry", Vector3(0, -160, 0), NoUserData,
                         Material("15152a", FALSE, 10000, Null))
        trim == Object3D("Mesh", "BoxGeometry", Vector3(0, -280, 0), NoUserData,
                         Material("333366", FALSE, 10000, Null))
        squares == [k \in 1..(BoardSize * BoardSize) |->
                        SquareMesh(id, CellRow(k), CellCol(k))]
        built == AddNew(<<group>>, 1,
                        <<Group(0), Group(0), base, trim>> \o squares \o addLabels)
    IN  [id |-> id,
         xOffset |-> xOffset,
         objects |-> built,
         group |-> 1,
         moveLineGroup |-> 2,
         interLayerGroup |-> 3,
         squareMeshes |-> [k \in 1..(BoardSize * BoardSize) |-> 5 + k],
         pieceMeshes |-> <<>>,
         highlightMeshes |-> <<>>,
         lastMoveHL |-> <<>>,
         historyLayers |-> <<>>,
         historySquareMeshes |-> <<>>,
         crossTimelineTargets |-> <<>>,
         timeTravelTargets |-> <<>>,
         cpuPreviewMeshes |-> <<>>,
         drawnBranchIndices |-> {}]

\* TimelineCol._isMainBoardSprite
isMainBoardSprite(sprite) ==
    \/ Flag(sprite.userData, "isMainBoardPiece")
    \/ Abs(sprite.position.y - 220) < 10

\* The children of the group that the cleanup loop of render and clearAll
\* removes.
MainBoardSprites(col) ==
    {u \in Range(col.objects[col.group].children) :
        col.objects[u].kind = "Sprite" /\ isMainBoardSprite(col.objects[u])}

\* The two cleanup loops render and clearAll begin with: the objects afterwards.
RemovePieceSprites(col) ==
    LET swept == RemoveAll(col.objects, col.group, MainBoardSprites(col))
    IN  RemoveAll(swept, col.group,
                  {u \in Range(col.pieceMeshes) : swept[u].parent = col.group})

\* The sprite render makes for the piece on row r, column c.
PieceSprite(piece, r, c) ==
    Object3D("Sprite", "", Vector3(c * 1000 - 3500, 220, r * 1000 - 3500),
             [isMainBoardPiece |-> TRUE],
             Material("", TRUE, 10000, piece))

\* The cells of a position that hold a piece, in the order of the loops.
Occupied(position) ==
    LET HasPiece(k) == position[CellRow(k)][CellCol(k)] # Null
    IN  SelectSeq(Cells, HasPiece)

\* render that keeps the sprites of the position before.
render_KeepsSprites(col, position) ==
    LET cells == Occupied(position)
        sprites == [i \in 1..Len(cells) |->
                       PieceSprite(position[CellRow(cells[i])][CellCol(cells[i])],
                                   CellRow(cells[i]), CellCol(cells[i]))]
    IN  [col EXCEPT
            !.objects = AddNew(col.objects, col.group, sprites),
            !.pieceMeshes = NewRefs(col.objects, sprites)]

\* TimelineCol.render
render(col, position) ==
    LET cleared == RemovePieceSprites(col)
        cells == Occupied(position)
        sprites == [i \in 1..Len(cells) |->
                       PieceSprite(position[CellRow(cells[i])][CellCol(cells[i])],
                                   CellRow(cells[i]), CellCol(cells[i]))]
    IN  [col EXCEPT
            !.objects = AddNew(cleared, col.group, sprites),
            !.pieceMeshes = NewRefs(cleared, sprites)]

\* TimelineCol.markBranchDrawn
markBranchDrawn(col, snapshotIndex) ==
    [col EXCEPT !.drawnBranchIndices = @ \cup {snapshotIndex}]

\* TimelineCol.hasBranchDrawn
hasBranchDrawn(col, snapshotIndex) == snapshotIndex \in col.drawnBranchIndices

\* layerGroup.userData.sqMeshes || []
sqMeshesOf(layer) ==
    IF "sqMeshes" \in DOMAIN layer.userData THEN layer.userData.sqMeshes ELSE <<>>

\* _makeHistoryBoard, lines 695-717: the square of row r, column c.
HistorySquare(id, turnIndex, r, c) ==
    LET color == IF (r + c) % 2 = 0 THEN "5a5a88" ELSE "38385a"
    IN  Object3D("Mesh", "BoxGeometry",
                 Vector3(c * 1000 - 3500, 0, r * 1000 - 3500),
                 [square |-> toSq(r, c),
                  row |-> r,
                  col |-> c,
                  origColor |-> color,
                  timelineId |-> id,
                  turn |-> turnIndex,
                  isHistory |-> TRUE],
                 Material(color, TRUE, 1500, Null))

\* _makeHistoryBoard, lines 722-735: the sprite of the piece on row r, column c.
HistorySprite(piece, r, c) ==
    Object3D("Sprite", "", Vector3(c * 1000 - 3500, 120, r * 1000 - 3500),
             NoUserData, Material("", TRUE, 2500, piece))

\* TimelineCol._makeHistoryBoard: the column afterwards and the address of
\* the group made.  The group comes first, then its base, its 64 squares and
\* its sprites.
makeHistoryBoard(col, position) ==
    LET g == Len(col.objects) + 1
        turnIndex == Len(col.historyLayers)
        base == Object3D("Mesh", "BoxGeometry", Vector3(0, -20, 0), NoUserData,
                         Material("15152a", TRUE, 2500, Null))
        squares == [k \in 1..(BoardSize * BoardSize) |->
                        HistorySquare(col.id, turnIndex, CellRow(k), CellCol(k))]
        cells == Occupied(position)
        sprites == [i \in 1..Len(cells) |->
                       HistorySprite(position[CellRow(cells[i])][CellCol(cells[i])],
                                     CellRow(cells[i]), CellCol(cells[i]))]
        made == AddNew(Append(col.objects, Group(0)), g, <<base>> \o squares \o sprites)
        sqMeshes == [k \in 1..(BoardSize * BoardSize) |-> g + 1 + k]
    IN  [col |-> [col EXCEPT
                     !.objects = [made EXCEPT ![g].userData = [sqMeshes |-> sqMeshes]],
                     !.historySquareMeshes = @ \o sqMeshes],
         g |-> g]

\* TimelineCol._removeHistorySquares (disposing of a material changes nothing
\* the column reads).
removeHistorySquares(col, layerGroup) ==
    LET toRemove == Range(sqMeshesOf(col.objects[layerGroup]))
        Stays(m) == m \notin toRemove
    IN  [col EXCEPT !.historySquareMeshes = SelectSeq(@, Stays)]

\* group.traverse: the group and everything below it.
RECURSIVE Descendants(_, _)
Descendants(os, u) ==
    {u} \cup UNION {Descendants(os, os[u].children[i]) : i \in 1..Len(os[u].children)}

\* TimelineCol._setGroupOpacity
setGroupOpacity(os, group, opacity) ==
    LET below == Descendants(os, group)
    IN  [u \in DOMAIN os |->
            IF u \in below /\ os[u].kind # "Group" /\ os[u].material.transparent
            THEN [os[u] EXCEPT !.material.opacity =
                     IF os[u].kind = "Sprite" THEN (opacity * 11) \div 10 ELSE opacity]
            ELSE os[u]]

Max(a, b) == IF a > b THEN a ELSE b

\* _layoutLayers, lines 763-768: Math.max(0.04, baseOp - i * 0.035)
LayerOpacity(hasBranch, i) == Max(400, (IF hasBranch THEN 1200 ELSE 2800) - i * 350)

\* _layoutLayers, lines 758-777: the loop body for the layer at index i.
LayoutLayer(col, os, i) ==
    LET n == Len(col.historyLayers)
        layer == col.historyLayers[i + 1]
        snapshotIndex == n - 1 - i
        hasBranch == snapshotIndex \in col.drawnBranchIndices
        placed == [os EXCEPT ![layer].position.y = -(i + 1) * LAYER_GAP]
        shaded == setGroupOpacity(placed, layer, LayerOpacity(hasBranch, i))
        sqs == Range(sqMeshesOf(shaded[layer]))
    IN  [u \in DOMAIN shaded |->
            IF u \in sqs THEN [shaded[u] EXCEPT !.userData.turn = i] ELSE shaded[u]]

RECURSIVE LayoutFrom(_, _, _)
LayoutFrom(col, os, i) ==
    IF i >= Len(col.historyLayers)
    THEN os
    ELSE LayoutFrom(col, LayoutLayer(col, os, i), i + 1)

\* Board3DManager._glowTube, as the group it returns.
glowTube(from, to, color) ==
    Object3D("Group", "glowTube", Vector3(0, 0, 0),
             [from |-> from, to |-> to, color |-> color], NoMaterial)

\* _sqToWorld(sq, y) with xOffset taken off again.
SquareAt(sq, y) == Vector3(fromSq(sq).c * 1000 - 3500, y, fromSq(sq).r * 1000 - 3500)

\* _layoutLayers, lines 784-806: the line of the layer at index j, if it gets one.
InterLayerLine(col, os, j) ==
    LET layer == os[col.historyLayers[j + 1]]
        fromY == layer.position.y + 100
        toY == IF j = 0 THEN 100 ELSE os[col.historyLayers[j]].position.y + 100
    IN  IF (Len(col.historyLayers) - 1 - j) \in col.drawnBranchIndices
        THEN <<>>
        ELSE <<glowTube(SquareAt(layer.userData.moveFrom, fromY),
                        SquareAt(layer.userData.moveTo, toY),
                        IF layer.userData.isWhite THEN "88bbdd" ELSE "ddaa77")>>

RECURSIVE InterLayerLines(_, _, _)
InterLayerLines(col, os, j) ==
    IF j >= Len(col.historyLayers)
    THEN <<>>
    ELSE InterLayerLine(col, os, j) \o InterLayerLines(col, os, j + 1)

\* TimelineCol._layoutLayers
layoutLayers(col) ==
    LET laid == LayoutFrom(col, col.objects, 0)
        emptied == RemoveAll(laid, col.interLayerGroup,
                             Range(laid[col.interLayerGroup].children))
    IN  [col EXCEPT
            !.objects = AddNew(emptied, col.interLayerGroup,
                               InterLayerLines(col, emptied, 0))]

\* addSnapshot, lines 668-672: the loop that evicts.
RECURSIVE EvictOld(_)
EvictOld(col) ==
    IF Len(col.historyLayers) > MAX_LAYERS
    THEN LET old == col.historyLayers[Len(col.historyLayers)]
             popped == [col EXCEPT
                           !.historyLayers = SubSeq(@, 1, Len(@) - 1)]
             removed == removeHistorySquares(popped, old)
         IN  EvictOld([removed EXCEPT
                          !.objects = RemoveAll(@, col.group, {old})])
    ELSE col

\* TimelineCol.addSnapshot
addSnapshot(col, position, moveFrom, moveTo, isWhite) ==
    LET made == makeHistoryBoard(col, position)
        layerGroup == made.g
        named == [made.col EXCEPT
                     !.objects[layerGroup].userData =
                         [moveFrom |-> moveFrom, moveTo |-> moveTo,
                          isWhite |-> isWhite],
                     !.historyLayers = <<layerGroup>> \o @]
        added == [named EXCEPT !.objects = Add(@, col.group, layerGroup)]
    IN  layoutLayers(EvictOld(added))

\* TimelineCol.getAllSquareMeshes
getAllSquareMeshes(col) == col.squareMeshes \o col.historySquareMeshes

\* A flat mesh lying on square sq at height y: a ring, a disc, a plane, a beam.
Marker(geometry, color, opacity, sq, y) ==
    Object3D("Mesh", geometry, SquareAt(sq, y), NoUserData,
             Material(color, TRUE, opacity, Null))

\* TimelineCol.clearHighlights
clearHighlights(col) ==
    LET hs == col.highlightMeshes
        squares == {hs[i].mesh : i \in {j \in 1..Len(hs) : hs[j].type = "sq"}}
        indicators == {hs[i].mesh : i \in {j \in 1..Len(hs) : hs[j].type # "sq"}}
        restored == [u \in DOMAIN col.objects |->
                        IF u \in squares
                        THEN [col.objects[u] EXCEPT
                                 !.material.color = col.objects[u].userData.origColor,
                                 !.material.emissive = "000000"]
                        ELSE col.objects[u]]
    IN  [col EXCEPT
            !.objects = RemoveAll(restored, col.group, indicators),
            !.highlightMeshes = <<>>]

\* TimelineCol.select
select(col, sq) ==
    LET cleared == clearHighlights(col)
        pos == fromSq(sq)
        m == cleared.squareMeshes[pos.r * BoardSize + pos.c + 1]
    IN  [cleared EXCEPT
            !.objects[m].material.color = "bba030",
            !.objects[m].material.emissive = "554410",
            !.highlightMeshes = Append(@, [type |-> "sq", mesh |-> m])]

\* TimelineCol.showLegalMoves, for the squares the moves go to.
RECURSIVE showLegalMoves(_, _, _)
showLegalMoves(col, targets, position) ==
    IF targets = <<>>
    THEN col
    ELSE LET p == fromSq(Head(targets))
             hasPiece == position[p.r][p.c] # Null
             ind == Marker(IF hasPiece THEN "RingGeometry" ELSE "CircleGeometry",
                           "ffdd44", 5000, Head(targets), 60)
             shown == [col EXCEPT
                          !.objects = AddNew(@, col.group, <<ind>>),
                          !.highlightMeshes =
                              Append(@, [type |-> "ind", mesh |-> Len(col.objects) + 1])]
         IN  showLegalMoves(shown, Tail(targets), position)

\* TimelineCol.showLastMove
showLastMove(col, from, to) ==
    LET removed == RemoveAll(col.objects, col.group, Range(col.lastMoveHL))
        planes == <<Marker("PlaneGeometry", "4488ff", 1500, from, 55),
                    Marker("PlaneGeometry", "4488ff", 1500, to, 55)>>
    IN  [col EXCEPT
            !.objects = AddNew(removed, col.group, planes),
            !.lastMoveHL = NewRefs(removed, planes)]

\* TimelineCol.clearCpuMovePreview
clearCpuMovePreview(col) ==
    [col EXCEPT
        !.objects = RemoveAll(@, col.group, Range(col.cpuPreviewMeshes)),
        !.cpuPreviewMeshes = <<>>]

\* TimelineCol.showCpuMovePreview
showCpuMovePreview(col, from, to, isWhite, isTimeTravel) ==
    LET cleared == clearCpuMovePreview(col)
        color == IF isTimeTravel THEN "44ffaa"
                 ELSE IF isWhite THEN "88ccff" ELSE "ffaa66"
        line == glowTube(SquareAt(from, 150), SquareAt(to, 150), color)
        preview == <<Marker("RingGeometry", color, 9000, from, 120),
                     Marker("CircleGeometry", color, 3000, from, 100),
                     Marker("RingGeometry", color, 7500, to, 90),
                     Marker("CircleGeometry", color, 2500, to, 70),
                     [line EXCEPT !.userData = @ @@ [isCpuPreview |-> TRUE]]>>
    IN  [cleared EXCEPT
            !.objects = AddNew(@, col.group, preview),
            !.cpuPreviewMeshes = NewRefs(cleared.objects, preview)]

\* TimelineCol.showCrossTimelineTarget
showCrossTimelineTarget(col, sq, isCapture) ==
    LET target == <<Marker("RingGeometry", "aa44ff", 8500, sq, 90),
                    Marker("CircleGeometry", "aa44ff",
                           IF isCapture THEN 3500 ELSE 2500, sq, 70),
                    Marker("CylinderGeometry", "aa44ff", 4000, sq, 700)>>
                  \o (IF isCapture
                      THEN <<Marker("RingGeometry", "ff6666", 7000, sq, 100)>>
                      ELSE <<>>)
    IN  [col EXCEPT
            !.objects = AddNew(@, col.group, target),
            !.crossTimelineTargets = @ \o NewRefs(col.objects, target)]

\* TimelineCol._clearBoardGlowBorder: the objects afterwards.
clearBoardGlowBorder(os, group) ==
    RemoveAll(os, group,
              {u \in Range(os[group].children) : Flag(os[u].userData, "isBoardGlowBorder")})

\* TimelineCol.showBoardGlowBorder: four beams and four corner spheres.
showBoardGlowBorder(col, color) ==
    LET Edge(geometry, opacity, x, z) ==
            Object3D("Mesh", geometry, Vector3(x, 150, z),
                     [isBoardGlowBorder |-> TRUE],
                     Material(color, TRUE, opacity, Null))
        border == <<Edge("BoxGeometry", 6000, 0, -4300),
                    Edge("BoxGeometry", 6000, 0, 4300),
                    Edge("BoxGeometry", 6000, -4300, 0),
                    Edge("BoxGeometry", 6000, 4300, 0),
                    Edge("SphereGeometry", 8000, -4300, -4300),
                    Edge("SphereGeometry", 8000, 4300, -4300),
                    Edge("SphereGeometry", 8000, -4300, 4300),
                    Edge("SphereGeometry", 8000, 4300, 4300)>>
    IN  [col EXCEPT
            !.objects = AddNew(clearBoardGlowBorder(@, col.group), col.group, border)]

\* TimelineCol.clearCrossTimelineTargets
clearCrossTimelineTargets(col) ==
    [col EXCEPT
        !.objects = clearBoardGlowBorder(
                        RemoveAll(@, col.group, Range(col.crossTimelineTargets)),
                        col.group),
        !.crossTimelineTargets = <<>>]

\* TimelineCol.showTimeTravelTarget
showTimeTravelTarget(col, turnIndex, sq, isCapture) ==
    IF turnIndex < 0 \/ turnIndex >= Len(col.historyLayers)
    THEN col
    ELSE LET layer == col.historyLayers[turnIndex + 1]
             target == <<Marker("TorusGeometry", "44ffaa", 8000, sq, 120),
                         Marker("CircleGeometry", "44ffaa",
                                IF isCapture THEN 4000 ELSE 2500, sq, 110)>>
                       \o (IF isCapture
                           THEN <<Marker("TorusGeometry", "ff6666", 6000, sq, 130)>>
                           ELSE <<>>)
         IN  [col EXCEPT
                 !.objects = AddNew(@, layer, target),
                 !.timeTravelTargets = @ \o NewRefs(col.objects, target)]

\* TimelineCol.clearTimeTravelTargets
RECURSIVE RemoveFromParents(_, _)
RemoveFromParents(os, meshes) ==
    IF meshes = <<>>
    THEN os
    ELSE LET mesh == Head(meshes)
         IN  RemoveFromParents(IF os[mesh].parent # NullRef
                               THEN RemoveAll(os, os[mesh].parent, {mesh})
                               ELSE os,
                               Tail(meshes))

clearTimeTravelTargets(col) ==
    [col EXCEPT
        !.objects = RemoveFromParents(@, col.timeTravelTargets),
        !.timeTravelTargets = <<>>]

\* TimelineCol.addMoveLine
addMoveLine(col, from, to, isWhite) ==
    [col EXCEPT
        !.objects = AddNew(@, col.moveLineGroup,
                           <<glowTube(SquareAt(from, 90), SquareAt(to, 90),
                                      IF isWhite THEN "6688bb" ELSE "bb8866")>>)]

\* TimelineCol.setBoardGlow
setBoardGlow(col, state) ==
    LET glow == IF state = "checkmate" THEN "ff3333"
                ELSE IF state = "draw" THEN "888888" ELSE "000000"
    IN  [col EXCEPT
            !.objects = [u \in DOMAIN col.objects |->
                            IF u \in Range(col.squareMeshes)
                            THEN [col.objects[u] EXCEPT !.material.emissive = glow]
                            ELSE col.objects[u]]]

\* clearAll that leaves drawnBranchIndices as it is.
TimelineCol_clearAll_KeepsBranches(col) ==
    LET swept == [col EXCEPT !.objects = RemovePieceSprites(col), !.pieceMeshes = <<>>]
        unlayered == [swept EXCEPT
                         !.objects = RemoveAll(@, col.group, Range(col.historyLayers)),
                         !.historyLayers = <<>>,
                         !.historySquareMeshes = <<>>]
        unlined == [unlayered EXCEPT
                       !.objects =
                           RemoveAll(RemoveAll(@, col.moveLineGroup,
                                               Range(@[col.moveLineGroup].children)),
                                     col.interLayerGroup,
                                     Range(@[col.interLayerGroup].children))]
        unlit == clearHighlights(unlined)
        unmarked == [unlit EXCEPT
                        !.objects = RemoveAll(@, col.group, Range(col.lastMoveHL)),
                        !.lastMoveHL = <<>>]
    IN  clearTimeTravelTargets(clearCrossTimelineTargets(unmarked))

\* TimelineCol.clearAll
TimelineCol_clearAll(col) ==
    LET swept == [col EXCEPT !.objects = RemovePieceSprites(col), !.pieceMeshes = <<>>]
        unlayered == [swept EXCEPT
                         !.objects = RemoveAll(@, col.group, Range(col.historyLayers)),
                         !.historyLayers = <<>>,
                         !.historySquareMeshes = <<>>,
                         !.drawnBranchIndices = {}]
        unlined == [unlayered EXCEPT
                       !.objects =
                           RemoveAll(RemoveAll(@, col.moveLineGroup,
                                               Range(@[col.moveLineGroup].children)),
                                     col.interLayerGroup,
                                     Range(@[col.interLayerGroup].children))]
        unlit == clearHighlights(unlined)
        unmarked == [unlit EXCEPT
                        !.objects = RemoveAll(@, col.group, Range(col.lastMoveHL)),
                        !.lastMoveHL = <<>>]
    IN  clearTimeTravelTargets(clearCrossTimelineTargets(unmarked))

\* TimelineCol.destroy; the scene the group is taken from is not modelled.
destroy(col) == TimelineCol_clearAll(col)

\* What Board3DManager._onClick reports for a hit on a mesh of the column.
onClick(col, mesh) ==
    LET ud == col.objects[mesh].userData
    IN  [timelineId |-> ud.timelineId,
         square |-> ud.square,
         turn |-> ud.turn,
         isHistory |-> Flag(ud, "isHistory")]

TIMELINE_COLORS ==
    <<"44ddff", "ff66aa", "66ff88", "ffaa33", "aa66ff", "ff4444", "44ffcc", "ffff44">>

TIMELINE_SPACING == 12

\* The variables of the transaction and of its helpers, which the view
\* leaves alone.
ViewFrame ==
    UNCHANGED <<timelines, txn, events, outcome, created, uncaptured, steps,
                pc, heap, live, saved, arg, result, engine>>

\* Board3DManager.createTimeline
createTimeline(id, xOffset) ==
    /\ timelineCols' = (id :> NewTimelineCol(id, xOffset)) @@ timelineCols
    /\ UNCHANGED branchLineGroup

\* Board3DManager.removeTimeline
removeTimeline(id) ==
    /\ timelineCols' = IF id \in DOMAIN timelineCols
                       THEN [i \in (DOMAIN timelineCols) \ {id} |-> timelineCols[i]]
                       ELSE timelineCols
    /\ UNCHANGED branchLineGroup

\* The line addBranchLine draws.
BranchLine(fromCol, fromTurn, toCol, toTlId) ==
    glowTube(Vector3(fromCol.xOffset * 1000, -(fromTurn + 1) * LAYER_GAP + 200, 0),
             Vector3(toCol.xOffset * 1000, 200, 0),
             TIMELINE_COLORS[(toTlId % Len(TIMELINE_COLORS)) + 1])

\* addBranchLine that draws a line whether or not the branch point is marked.
addBranchLine_NoMarkTest(fromTlId, fromTurn, toTlId) ==
    IF fromTlId \notin DOMAIN timelineCols \/ toTlId \notin DOMAIN timelineCols
    THEN UNCHANGED <<timelineCols, branchLineGroup>>
    ELSE /\ timelineCols' =
                [timelineCols EXCEPT
                    ![fromTlId] = markBranchDrawn(timelineCols[fromTlId], fromTurn)]
         /\ branchLineGroup' =
                Append(branchLineGroup,
                       BranchLine(timelineCols[fromTlId], fromTurn,
                                  timelineCols[toTlId], toTlId))

\* Board3DManager.addBranchLine, once init() has made branchLineGroup.
addBranchLine(fromTlId, fromTurn, toTlId) ==
    IF fromTlId \notin DOMAIN timelineCols \/ toTlId \notin DOMAIN timelineCols
    THEN UNCHANGED <<timelineCols, branchLineGroup>>
    ELSE IF hasBranchDrawn(timelineCols[fromTlId], fromTurn)
    THEN UNCHANGED <<timelineCols, branchLineGroup>>
    ELSE /\ timelineCols' =
                [timelineCols EXCEPT
                    ![fromTlId] = markBranchDrawn(timelineCols[fromTlId], fromTurn)]
         /\ branchLineGroup' =
                Append(branchLineGroup,
                       BranchLine(timelineCols[fromTlId], fromTurn,
                                  timelineCols[toTlId], toTlId))

\* Board3DManager.clearAll
Board3DManager_clearAll ==
    /\ timelineCols' = <<>>
    /\ branchLineGroup' = <<>>

\* A method of the column with the id, called with its arguments.
OnColumn(id, after) ==
    /\ timelineCols' = [timelineCols EXCEPT ![id] = after]
    /\ UNCHANGED branchLineGroup

----------------------------------------------------------------------------
(* The view driven by a game *)

MaxSnapshots == 14   \* most addSnapshot calls on a column
MaxRenders == 3      \* most calls on a column that is rendered
MaxCalls == 2        \* most calls that put something into a scene

\* No transaction at work.
TransactionIdle ==
    /\ timelines = InitialTimelines
    /\ txn = [t \in TxIds |-> NewTransaction]
    /\ events = <<>>
    /\ outcome = Ok
    /\ created = {}
    /\ uncaptured = {}
    /\ steps = 0
    /\ pc = "view"
    /\ heap = <<>>
    /\ live = <<>>
    /\ saved = <<>>
    /\ arg = <<>>
    /\ result = <<>>
    /\ engine = "reports"

\* Squares named in the calls: e2, e4, e7, e5, d1.
E2 == <<101, 50>>
E4 == <<101, 52>>
E7 == <<101, 55>>
E5 == <<101, 53>>
D1 == <<100, 49>>

\* The move a game makes as its n-th: white and black take turns.
MoveMade(n) ==
    IF n % 2 = 0
    THEN [position |-> BoardB, from |-> E2, to |-> E4, isWhite |-> TRUE]
    ELSE [position |-> BoardA, from |-> E7, to |-> E5, isWhite |-> FALSE]

\* A call of addSnapshot on the column, for the next move of the game.
AddSnapshot(id, bound) ==
    /\ id \in DOMAIN timelineCols
    /\ calls < bound
    /\ LET m == MoveMade(calls)
       IN  OnColumn(id, addSnapshot(timelineCols[id], m.position, m.from, m.to, m.isWhite))
    /\ calls' = calls + 1
    /\ ViewFrame

\* The snapshot indices a branch is drawn from.
BranchTurns == {0, 1, MAX_LAYERS}

\* A call of markBranchDrawn for a snapshot the column was given.
MarkBranchDrawn(id, k) ==
    /\ id \in DOMAIN timelineCols
    /\ k < calls
    /\ ~hasBranchDrawn(timelineCols[id], k)
    /\ OnColumn(id, markBranchDrawn(timelineCols[id], k))
    /\ UNCHANGED calls
    /\ ViewFrame

InitLayers ==
    /\ TransactionIdle
    /\ timelineCols = (1 :> NewTimelineCol(1, 0))
    /\ branchLineGroup = <<>>
    /\ calls = 0

NextLayers ==
    \/ AddSnapshot(1, MaxSnapshots)
    \/ \E k \in BranchTurns : MarkBranchDrawn(1, k)

SpecLayers == InitLayers /\ [][NextLayers]_vars


\* The columns a game makes and the branches it draws between them.
ColIds == {1, 2, 3}

FromIds == {1, 2}

ToIds == {2, 3}

FromTurns == {0, 1}

\* A column made for a timeline that has none, TIMELINE_SPACING apart.
CreateColumn(id) ==
    /\ id \notin DOMAIN timelineCols
    /\ createTimeline(id, (id - 1) * TIMELINE_SPACING)
    /\ UNCHANGED calls
    /\ ViewFrame

AddBranchLine(fromTlId, fromTurn, toTlId) ==
    /\ addBranchLine(fromTlId, fromTurn, toTlId)
    /\ UNCHANGED calls
    /\ ViewFrame

InitBranch ==
    /\ TransactionIdle
    /\ timelineCols = <<>>
    /\ branchLineGroup = <<>>
    /\ calls = 0

NextBranch ==
    \/ \E id \in ColIds : CreateColumn(id)
    \/ \E f \in FromIds, k \in FromTurns, t \in ToIds : AddBranchLine(f, k, t)

SpecBranch == InitBranch /\ [][NextBranch]_vars


\* The positions a game renders.
RenderPositions == {EmptyBoard, BoardA, BoardB}

\* A call of render on the column.
Render(id, position, bound) ==
    /\ id \in DOMAIN timelineCols
    /\ calls < bound
    /\ OnColumn(id, render(timelineCols[id], position))
    /\ calls' = calls + 1
    /\ ViewFrame

\* A call of showLastMove on the column, for the move made last.
ShowLastMove(id, bound) ==
    /\ id \in DOMAIN timelineCols
    /\ calls < bound
    /\ LET m == MoveMade(calls)
       IN  OnColumn(id, showLastMove(timelineCols[id], m.from, m.to))
    /\ calls' = calls + 1
    /\ ViewFrame

InitRender ==
    /\ TransactionIdle
    /\ timelineCols = (1 :> NewTimelineCol(1, 0))
    /\ branchLineGroup = <<>>
    /\ calls = 0

NextRender ==
    \/ \E position \in RenderPositions : Render(1, position, MaxRenders)
    \/ AddSnapshot(1, MaxRenders)
    \/ ShowLastMove(1, MaxRenders)

SpecRender == InitRender /\ [][NextRender]_vars


\* A call on a column of a game that goes on to clear its view.
Call(id, after) ==
    /\ id \in DOMAIN timelineCols
    /\ calls < MaxCalls
    /\ OnColumn(id, after)
    /\ calls' = calls + 1
    /\ ViewFrame

Select(id) == Call(id, select(timelineCols[id], E2))

ShowLegalMoves(id) == Call(id, showLegalMoves(timelineCols[id], <<E4, D1>>, BoardB))

ShowCrossTimelineTarget(id, isCapture) ==
    Call(id, showCrossTimelineTarget(timelineCols[id], E4, isCapture))

ShowBoardGlowBorder(id) == Call(id, showBoardGlowBorder(timelineCols[id], "aa44ff"))

ShowTimeTravelTarget(id, isCapture) ==
    Call(id, showTimeTravelTarget(timelineCols[id], 0, E5, isCapture))

ShowCpuMovePreview(id) ==
    Call(id, showCpuMovePreview(timelineCols[id], E7, E5, FALSE, FALSE))

AddMoveLine(id) == Call(id, addMoveLine(timelineCols[id], E2, E4, TRUE))

SetBoardGlow(id) == Call(id, setBoardGlow(timelineCols[id], "checkmate"))

DrawBranch(fromTlId, fromTurn, toTlId) ==
    /\ calls < MaxCalls
    /\ addBranchLine(fromTlId, fromTurn, toTlId)
    /\ calls' = calls + 1
    /\ ViewFrame

\* TimelineCol.clearAll called on the column.
ClearColumn(id) ==
    /\ id \in DOMAIN timelineCols
    /\ OnColumn(id, TimelineCol_clearAll(timelineCols[id]))
    /\ UNCHANGED calls
    /\ ViewFrame

\* Board3DManager.clearAll called.
ClearManager ==
    /\ Board3DManager_clearAll
    /\ UNCHANGED calls
    /\ ViewFrame

InitClear ==
    /\ TransactionIdle
    /\ timelineCols = (1 :> NewTimelineCol(1, 0)) @@ (2 :> NewTimelineCol(2, TIMELINE_SPACING))
    /\ branchLineGroup = <<>>
    /\ calls = 0

NextClear ==
    \/ Render(1, BoardB, MaxCalls)
    \/ AddSnapshot(1, MaxCalls)
    \/ ShowLastMove(1, MaxCalls)
    \/ Select(1)
    \/ ShowLegalMoves(1)
    \/ \E isCapture \in BOOLEAN : ShowCrossTimelineTarget(1, isCapture)
    \/ ShowBoardGlowBorder(1)
    \/ \E isCapture \in BOOLEAN : ShowTimeTravelTarget(1, isCapture)
    \/ ShowCpuMovePreview(1)
    \/ AddMoveLine(1)
    \/ SetBoardGlow(1)
    \/ DrawBranch(1, 0, 2)
    \/ ClearColumn(1)
    \/ ClearManager

SpecClear == InitClear /\ [][NextClear]_vars

----------------------------------------------------------------------------
(* Vocabulary of the properties *)

Open(t) == ~txn[t].committed /\ ~txn[t].rolledBack

EventIndices(kind) == {i \in 1..Len(events) : events[i].kind = kind}

CallbackCount(id) ==
    Cardinality({i \in EventIndices("callback") : events[i].id = id})

DeletedIds == {events[i].id : i \in EventIndices("delete")}

\* rollback was given a callback and had a timeline to delete.
CallbackGiven == EventIndices("callback") # {}

\* The operation followed the capture protocol: every timeline was captured
\* before its first mutation, every timeline it created was recorded as new.
CapturedBeforeMutation == uncaptured = {} /\ created \subseteq NewIds(1)

\* The ids recorded as new are ids of timelines that did not exist when the
\* operation began.
RecordedAreNew == NewIds(1) \cap DOMAIN InitialTimelines = {}

AnyCaptureTimeline == \E id \in Ids, label \in Labels : captureTimeline(1, id, label)

AnyCaptureNewTimeline == \E id \in RecordedIds : captureNewTimeline(1, id)

AnyRollback == \E cb \in CallbackKinds : rollback(1, cb)

----------------------------------------------------------------------------
(* C1. Atomicity of rollback: when every timeline was captured before its   *)
(* first mutation and every timeline created during the operation was       *)
(* recorded as new (the recorded ids being ids of new timelines), then      *)
(* right after rollback the registry holds exactly the ids it held before   *)
(* the operation and every timeline's position, move history and snapshot   *)
(* list equal their values before the operation.                            *)
C1_Atomicity ==
    (outcome = RollbackComplete /\ CapturedBeforeMutation /\ RecordedAreNew)
        => /\ DOMAIN timelines = DOMAIN InitialTimelines
           /\ \A id \in DOMAIN timelines :
                  /\ Fen(timelines[id].chess) = Fen(InitialTimelines[id].chess)
                  /\ timelines[id].moveHistory = InitialTimelines[id].moveHistory
                  /\ timelines[id].snapshots = InitialTimelines[id].snapshots

\* A rollback that undid two steps: a created timeline was deleted and a
\* captured timeline, changed after its capture, was restored.
C1_Witness ==
    /\ outcome = RollbackComplete
    /\ CapturedBeforeMutation
    /\ RecordedAreNew
    /\ steps = MaxSteps
    /\ created # {}
    /\ DeletedIds = created
    /\ EventIndices("restore") # {}

(* C2. The flags committed and rolledBack are never both true, and once one *)
(* of them is true it stays true and the other stays false, whatever calls  *)
(* follow.                                                                  *)
C2_Terminal ==
    /\ [](\A t \in TxIds : ~(txn[t].committed /\ txn[t].rolledBack))
    /\ [][\A t \in TxIds :
            /\ txn[t].committed => (txn'[t].committed /\ ~txn'[t].rolledBack)
            /\ txn[t].rolledBack => (txn'[t].rolledBack /\ ~txn'[t].committed)]_vars

\* A call was made on a finalized transaction and refused.
C2_Witness == txn[1].rolledBack /\ outcome = ErrFinalized

(* C3. Finalization exclusivity: rollback after commit fails, commit after  *)
(* rollback fails; the failing call raises an error, leaves the flags as    *)
(* they were and leaves every timeline alone: it deletes nothing, restores  *)
(* nothing and invokes no delete callback.                                  *)
C3_Exclusive ==
    [][/\ (txn[1].committed /\ AnyRollback)
            => (outcome' = ErrCommitted /\ UNCHANGED <<txn, timelines, events>>)
       /\ (txn[1].rolledBack /\ commit(1))
            => (outcome' = ErrFinalized /\ UNCHANGED <<txn, timelines, events>>)]_vars

\* rollback was called on a committed transaction that had recorded a new
\* timeline and captured another: the timelines are all still there.
C3_Witness ==
    /\ txn[1].committed
    /\ outcome = ErrCommitted
    /\ NewIds(1) \cap DOMAIN timelines # {}
    /\ txn[1].capturedStates # <<>>
    /\ events = <<>>

(* C4 as stated: every call of captureTimeline, captureNewTimeline, commit  *)
(* and rollback on a transaction that is Committed or RolledBack fails with *)
(* an error.                                                                *)
C4_EveryCallFails ==
    [][(isFinalized(1)
          /\ (AnyCaptureTimeline \/ AnyCaptureNewTimeline \/ commit(1) \/ AnyRollback))
        => outcome' \in Errors]_vars

(* C4, amended: on a finalized transaction captureTimeline,                 *)
(* captureNewTimeline and commit fail with an error, and so does rollback   *)
(* on a Committed transaction; rollback on a RolledBack transaction raises  *)
(* no error: it returns after logging that it is ignored.                   *)
C4_CallsAfterFinalization ==
    [][/\ (isFinalized(1) /\ (AnyCaptureTimeline \/ AnyCaptureNewTimeline \/ commit(1)))
            => outcome' = ErrFinalized
       /\ (txn[1].committed /\ AnyRollback) => outcome' = ErrCommitted
       /\ (txn[1].rolledBack /\ AnyRollback) => outcome' = AlreadyRolledBack]_vars

\* A rollback call on a RolledBack transaction has returned.
C4_Witness == txn[1].rolledBack /\ outcome = AlreadyRolledBack

(* C5. First capture wins: a captureTimeline call for an id that is already *)
(* captured leaves capturedStates as it is, whatever the label and however  *)
(* the timeline changed since; so what is stored for a timeline that was    *)
(* not touched before its first capture is its state when the operation     *)
(* began, under the label of the first call, and that is what rollback      *)
(* restores.                                                                *)
C5_FirstCaptureWins ==
    /\ [][\A id \in Ids, label \in Labels :
            (Open(1) /\ HasCaptured(1, id) /\ captureTimeline(1, id, label))
                => (txn' = txn /\ outcome' = AlreadyCaptured
                    /\ UNCHANGED <<timelines, events>>)]_vars
    /\ [](\A i \in 1..Len(txn[1].capturedStates) :
            LET state == txn[1].capturedStates[i]
            IN  /\ (i = 1) = (state.label = "source")
                /\ (state.id \in DOMAIN InitialTimelines /\ state.id \notin uncaptured)
                     => /\ state.fen = Fen(InitialTimelines[state.id].chess)
                        /\ state.moveHistory = InitialTimelines[state.id].moveHistory
                        /\ state.snapshots = InitialTimelines[state.id].snapshots)

\* The only captured timeline was changed after its capture and captured a
\* second time, with the label 'target'.
C5_Witness ==
    /\ outcome = AlreadyCaptured
    /\ Len(txn[1].capturedStates) = 1
    /\ uncaptured = {}
    /\ LET state == txn[1].capturedStates[1]
       IN  /\ state.id \in DOMAIN timelines
           /\ state.label = "source"
           /\ state.fen # Fen(timelines[state.id].chess)
           /\ state.moveHistory # timelines[state.id].moveHistory

(* C6. After commit or rollback, captureTimeline and captureNewTimeline     *)
(* raise an error and leave capturedStates and newTimelineIds unchanged;    *)
(* captureTimeline raises also for an id that is already captured.          *)
C6_CaptureOnlyWhileOpen ==
    [][isFinalized(1) =>
          /\ \A id \in CapturedIds(1) \cup DOMAIN timelines :
                captureTimeline(1, id, CallerLabel(1))
                    => (outcome' = ErrFinalized /\ txn' = txn)
          /\ \A id \in RecordedIds :
                captureNewTimeline(1, id)
                    => (outcome' = ErrFinalized /\ txn' = txn)]_vars

\* A capture call was refused on a finalized transaction in which every
\* timeline of the registry is already captured.
C6_Witness ==
    /\ isFinalized(1)
    /\ outcome = ErrFinalized
    /\ DOMAIN timelines # {}
    /\ DOMAIN timelines \subseteq CapturedIds(1)

(* C7. rollback on a RolledBack transaction raises no error, changes no     *)
(* timeline of the registry, deletes nothing and does not invoke the delete *)
(* callback, also when timelines were changed or created again since the    *)
(* first rollback.                                                          *)
C7_RollbackIdempotent ==
    [][(txn[1].rolledBack /\ AnyRollback)
        => (outcome' = AlreadyRolledBack /\ UNCHANGED <<txn, timelines, events>>)]_vars

\* The second rollback call returned with a timeline in the registry that
\* the first call had deleted.
C7_Witness ==
    /\ outcome = AlreadyRolledBack
    /\ DeletedIds \cap DOMAIN timelines # {}

(* C8. commit on an Open transaction sets the committed flag and changes    *)
(* nothing else: capturedStates, newTimelineIds and every timeline of the   *)
(* registry are as before the call.                                         *)
C8_CommitFrame ==
    [][(Open(1) /\ commit(1))
        => /\ txn' = [txn EXCEPT ![1].committed = TRUE]
           /\ outcome' = Committed
           /\ UNCHANGED <<timelines, events>>]_vars

\* A commit after the operation changed the registry, with a captured
\* timeline and a recorded new one.
C8_Witness ==
    /\ outcome = Committed
    /\ txn[1].committed
    /\ txn[1].capturedStates # <<>>
    /\ txn[1].newTimelineIds # <<>>
    /\ timelines # InitialTimelines

FirstIndex(id) ==
    CHOOSE i \in 1..Len(txn[1].newTimelineIds) :
        /\ txn[1].newTimelineIds[i] = id
        /\ \A j \in 1..(i - 1) : txn[1].newTimelineIds[j] # id

\* The recorded ids whose timeline was in the registry when rollback ran:
\* those that existed at the start or were created while the transaction was
\* Open (the operation removes no timeline itself).
RecordedAndPresent == NewIds(1) \cap (created \cup DOMAIN InitialTimelines)

(* C9 as stated: on rollback the delete callback is invoked for every id in *)
(* newTimelineIds.                                                          *)
C9_EveryRecordedId ==
    (txn[1].rolledBack /\ CallbackGiven)
        => \A id \in NewIds(1) : CallbackCount(id) >= 1

(* C9, amended: step 1 of rollback handles the recorded ids in the order    *)
(* they were recorded and skips an id whose timeline is not in the registry *)
(* (never created, or removed already as an earlier entry); for every other *)
(* id the delete callback (when one is given) is invoked with the id while  *)
(* the timeline is still present and the timeline is removed right after;   *)
(* every deletion happens before any captured timeline is restored.         *)
C9_DeleteStep ==
    /\ \A i \in EventIndices("callback") :
          /\ events[i].present
          /\ i < Len(events)
          /\ events[i + 1].kind = "delete"
          /\ events[i + 1].id = events[i].id
    /\ CallbackGiven =>
          \A j \in EventIndices("delete") :
              /\ events[j - 1].kind = "callback"
              /\ events[j - 1].id = events[j].id
    /\ \A i, j \in EventIndices("delete") :
          i < j => FirstIndex(events[i].id) < FirstIndex(events[j].id)
    /\ \A i \in EventIndices("delete") \cup EventIndices("callback") :
          \A j \in EventIndices("restore") \cup EventIndices("skip") : i < j
    /\ txn[1].rolledBack => DeletedIds = RecordedAndPresent
    /\ outcome = RollbackComplete => NewIds(1) \cap DOMAIN timelines = {}

\* A rollback with a callback that deleted two timelines, in the order
\* recorded, and then restored a captured one.
C9_Witness ==
    /\ outcome = RollbackComplete
    /\ CallbackGiven
    /\ Cardinality(EventIndices("delete")) = 2
    /\ Cardinality(EventIndices("callback")) = 2
    /\ EventIndices("restore") # {}

C11_SkipMissing ==
    [][(Open(1) /\ AnyRollback)
        => /\ outcome' = RollbackComplete
           /\ txn'[1].rolledBack /\ ~txn'[1].committed
           /\ \A i \in 1..Len(txn[1].capturedStates) :
                 LET state == txn[1].capturedStates[i]
                 IN  IF state.id \in (DOMAIN timelines) \ NewIds(1)
                     THEN /\ state.id \in DOMAIN timelines'
                          /\ Fen(timelines'[state.id].chess) = state.fen
                          /\ timelines'[state.id].moveHistory = state.moveHistory
                          /\ timelines'[state.id].snapshots = state.snapshots
                     ELSE state.id \notin DOMAIN timelines']_vars

\* A rollback that skipped a captured timeline removed by other code and
\* one removed by step 1, and restored a third.
C11_Witness ==
    /\ outcome = RollbackComplete
    /\ \E i, j \in EventIndices("skip") :
          /\ events[i].id \in DeletedIds
          /\ events[j].id \notin DeletedIds
    /\ EventIndices("restore") # {}

(* C12. Best-effort restore: when the captured string of a timeline cannot *)
(* be loaded, rollback raises no error, leaves that timeline's engine as it *)
(* is, still restores its move history and snapshot list from the capture,  *)
(* restores every other captured timeline, and leaves the transaction       *)
(* RolledBack.                                                              *)
C12_BestEffort ==
    [][(Open(1) /\ AnyRollback)
        => /\ outcome' = RollbackComplete
           /\ txn'[1].rolledBack /\ ~txn'[1].committed
           /\ \A i \in 1..Len(txn[1].capturedStates) :
                 LET state == txn[1].capturedStates[i]
                 IN  state.id \in (DOMAIN timelines) \ NewIds(1)
                        => /\ state.id \in DOMAIN timelines'
                           /\ timelines'[state.id].moveHistory = state.moveHistory
                           /\ timelines'[state.id].snapshots = state.snapshots
                           /\ IF FenParses(state.fen)
                              THEN Fen(timelines'[state.id].chess) = state.fen
                              ELSE timelines'[state.id].chess = timelines[state.id].chess]_vars

\* A rollback whose first captured string did not load: that timeline keeps
\* the position it had, has its captured lists back, and the timeline
\* captured after it is restored too.
C12_Witness ==
    /\ outcome = RollbackComplete
    /\ Len(txn[1].capturedStates) >= 2
    /\ LET failed == txn[1].capturedStates[1]
           next == txn[1].capturedStates[2]
       IN  /\ ~FenParses(failed.fen)
           /\ failed.id \in DOMAIN timelines
           /\ Fen(timelines[failed.id].chess) # failed.fen
           /\ timelines[failed.id].moveHistory = failed.moveHistory
           /\ timelines[failed.id].snapshots = failed.snapshots
           /\ next.id \in DOMAIN timelines
           /\ Fen(timelines[next.id].chess) = next.fen
           /\ timelines[next.id].moveHistory = next.moveHistory
           /\ steps = MaxSteps

CallbackIds == {events[i].id : i \in EventIndices("callback")}

C14_DeletedOnlyByRollback ==
    /\ [][(AnyCaptureTimeline \/ AnyCaptureNewTimeline \/ commit(1))
            => DOMAIN timelines' = DOMAIN timelines]_vars
    /\ [][AnyRollback
            => DOMAIN timelines' = IF Open(1)
                                  THEN (DOMAIN timelines) \ NewIds(1)
                                  ELSE DOMAIN timelines]_vars
    /\ [][(DOMAIN timelines) \ (DOMAIN timelines') # {}
            => (Open(1) /\ AnyRollback)]_vars

\* A rollback removed the one recorded timeline that was present; a timeline
\* created without being recorded and the captured timeline are still there.
C14_Witness ==
    /\ outcome = RollbackComplete
    /\ DeletedIds # {}
    /\ created \cap DOMAIN timelines # {}
    /\ CapturedIds(1) \cap DOMAIN timelines # {}

\* The value held at an address: arrays element by element, a snapshot
\* object with the value of its board, a cell with its piece or Null.
RECURSIVE ValueAt(_, _)
ValueAt(h, a) ==
    IF a = NullRef THEN Null
    ELSE IF h[a].kind = "array"
    THEN [i \in 1..Len(h[a].items) |-> ValueAt(h, h[a].items[i])]
    ELSE IF h[a].kind = "snapshot"
    THEN [fen |-> h[a].fen, board |-> ValueAt(h, h[a].board)]
    ELSE IF h[a].kind = "move" THEN h[a].move
    ELSE h[a].piece

\* The addresses of the objects reachable from an address.
RECURSIVE Reach(_, _)
Reach(h, a) ==
    IF a = NullRef THEN {}
    ELSE IF h[a].kind = "array"
    THEN {a} \cup UNION {Reach(h, h[a].items[i]) : i \in 1..Len(h[a].items)}
    ELSE IF h[a].kind = "snapshot"
    THEN {a} \cup Reach(h, h[a].board)
    ELSE {a}

StateValue(h, state) ==
    [fen |-> state.fen,
     moveHistory |-> ValueAt(h, state.moveHistory),
     snapshots |-> ValueAt(h, state.snapshots)]

StateObjects(h, state) == Reach(h, state.moveHistory) \cup Reach(h, state.snapshots)

(* C15. The captured state is a deep copy that shares no mutable object     *)
(* with the timeline: once captured, no in-place mutation of the timeline's *)
(* move-history list, of a move record, of its snapshot list, of a board    *)
(* row or of a piece cell changes the captured state; the lists rollback    *)
(* gives the timeline are fresh copies too, so mutating them afterwards     *)
(* leaves the captured copy unchanged.                                      *)
C15_DeepCopy ==
    /\ [](pc # "open" => StateObjects(heap, saved) \cap StateObjects(heap, live) = {})
    /\ [][pc # "open" => /\ saved' = saved
                          /\ StateValue(heap', saved) = StateValue(heap, saved)]_vars
    /\ [][rollbackAt =>
            /\ StateObjects(heap', live') \cap DOMAIN heap = {}
            /\ ValueAt(heap', live'.moveHistory) = ValueAt(heap, saved.moveHistory)
            /\ ValueAt(heap', live'.snapshots) = ValueAt(heap, saved.snapshots)]_vars

\* The timeline was mutated in place after its capture and again after the
\* rollback: what it holds differs from the captured state.
C15_Witness ==
    /\ pc = "rolledBack"
    /\ steps = 2
    /\ ValueAt(heap, saved.moveHistory) = ValueAt(InitialHeap, InitialLive.moveHistory)
    /\ ValueAt(heap, saved.snapshots) = ValueAt(InitialHeap, InitialLive.snapshots)
    /\ ValueAt(heap, live.moveHistory) # ValueAt(heap, saved.moveHistory)
    /\ ValueAt(heap, live.snapshots) # ValueAt(heap, saved.snapshots)

(* C16. Cloning a snapshot keeps its representation and its value: the     *)
(* clone of a bare board is a bare board, the clone of a {fen, board} pair  *)
(* is a pair with the same string, and on each of the 64 squares the clone  *)
(* has the same piece type and color, or is empty where the original is;    *)
(* so the list a capture followed by a rollback gives back equals the       *)
(* original list.                                                           *)
C16_CloneRoundTrip ==
    pc \in {"captured", "restored"}
        => /\ Len(result) = Len(arg)
           /\ \A i \in 1..Len(arg) :
                 /\ result[i].isArray = arg[i].isArray
                 /\ result[i].fen = arg[i].fen
                 /\ DOMAIN result[i].board = Rows
                 /\ \A r \in Rows :
                       /\ DOMAIN result[i].board[r] = Rows
                       /\ \A c \in Rows : result[i].board[r][c] = arg[i].board[r][c]
           /\ result = arg

\* A list of a bare board and a {fen, board} pair, with pieces on the first
\* and the last row, back from a capture and a rollback.
C16_Witness ==
    /\ pc = "restored"
    /\ Len(arg) = 2
    /\ arg[1].isArray /\ ~arg[2].isArray
    /\ arg[2].board[BoardSize - 1][3] = WhiteQueen
    /\ result[2].board[BoardSize - 1][3] = WhiteQueen
    /\ result[1].board[0][4] = BlackKing

RequestOver == pc \in {"returned", "thrown"}

(* C17. Under the documented usage (captures and mutations inside try,      *)
(* commit() last in try, rollback in catch before the error is thrown       *)
(* again, the delete callback returning when one is passed), every request  *)
(* comes to its end, and at its end the transaction is finalized: Committed *)
(* when no step failed, RolledBack when one did, whichever step it was;     *)
(* the flags are set once and the transaction is not left Open.             *)
C17_RequestFinalizes ==
    /\ <>RequestOver
    /\ [](RequestOver => isFinalized(1))
    /\ [](pc = "returned" => (txn[1].committed /\ ~txn[1].rolledBack))
    /\ [](pc = "thrown" => (txn[1].rolledBack /\ ~txn[1].committed))
    /\ [](~RequestOver => Open(1) \/ (pc = "try" /\ outcome = Committed)
                                  \/ (pc = "catch" /\ outcome = RollbackComplete))
    /\ [][isFinalized(1) => txn' = txn]_vars

\* A request whose step failed after it had created a timeline and changed a
\* captured one: it ended in the catch clause, rolled back.
C17_Witness ==
    /\ pc = "thrown"
    /\ txn[1].rolledBack
    /\ steps = MaxSteps
    /\ DeletedIds # {}
    /\ EventIndices("restore") # {}

\* Request 1 committed after changing timelines it had captured, and the
\* registry holds none of its changes.
LostUpdate ==
    /\ txn[1].committed
    /\ steps > 0
    /\ uncaptured = {}
    /\ timelines = InitialTimelines

(* C18. The class has no locking: a rollback of an Open transaction goes    *)
(* ahead whatever the state of the other transaction, and gives every       *)
(* captured timeline its capture-time state.  So when two Open transactions *)
(* interleave (both capture a timeline, one changes it and commits, the     *)
(* other rolls back) the committed change is overwritten and lost; when the *)
(* requests are serialized, each beginning after the other is finalized,    *)
(* that state is not reachable.                                             *)
C18_NoLocking ==
    /\ [][\A t \in TxIds :
            (InFlight(t) /\ \E cb \in CallbackKinds : rollback(t, cb))
                => /\ outcome' = RollbackComplete
                   /\ txn'[t].rolledBack
                   /\ \A i \in 1..Len(txn[t].capturedStates) :
                         LET state == txn[t].capturedStates[i]
                         IN  /\ state.id \in DOMAIN timelines'
                             /\ Fen(timelines'[state.id].chess) = state.fen
                             /\ timelines'[state.id].moveHistory = state.moveHistory
                             /\ timelines'[state.id].snapshots = state.snapshots]_vars
    /\ [](LostUpdate => pc.overlapped)

\* Both requests captured timeline 1; request 1 changed it and committed;
\* request 2 rolled back: timeline 1 is as it was before request 1.
C18_Witness ==
    /\ LostUpdate
    /\ txn[2].rolledBack
    /\ outcome = RollbackComplete
    /\ CapturedIds(1) = {1}
    /\ CapturedIds(2) = {1}

\* The codes of the file letters a..h, by column, and of the rank digits
\* 8..1, by row.
FileLetters == <<97, 98, 99, 100, 101, 102, 103, 104>>
RankDigits == <<56, 55, 54, 53, 52, 51, 50, 49>>

(* C19. Square naming is a bijection with an exact inverse: the name of     *)
(* (row, column), for both in 0..7, is the file letter a..h of the column   *)
(* followed by the rank 8 - row, and converting it back gives the same      *)
(* (row, column); for every name a1..h8, converting to (row, column) and    *)
(* back gives the same name; the conversions of TimelineCol and of          *)
(* Board3DManager agree on every square.                                    *)
C19_SquareNaming ==
    /\ (pc \in {"named", "done"} /\ arg.kind = "rc")
          => result.sq = <<FileLetters[arg.rc.c + 1], RankDigits[arg.rc.r + 1]>>
    /\ (pc = "done" /\ arg.kind = "rc") => result.col = arg.rc
    /\ (pc \in {"parsed", "done"} /\ arg.kind = "name")
          => /\ result.col \in Coordinates
             /\ FileLetters[result.col.c + 1] = arg.sq[1]
             /\ RankDigits[result.col.r + 1] = arg.sq[2]
    /\ (pc = "done" /\ arg.kind = "name") => result.sq = arg.sq
    /\ pc \in {"parsed", "done"}
          => /\ result.mgr = result.col
             /\ result.mgrWorld = result.world
             /\ result.world = [x2 |-> 2 * (result.col.c + arg.xOffset) - 7,
                                z2 |-> 2 * result.col.r - 7]

\* The corner (7, 0) was named a1 and converted back.
C19_Witness ==
    /\ pc = "done"
    /\ arg.kind = "rc"
    /\ arg.rc = [r |-> 7, c |-> 0]
    /\ result.sq = <<97, 49>>
    /\ result.mgr = arg.rc

SameLength(timeline) == Len(timeline.snapshots) = Len(timeline.moveHistory)

(* C20. snapshots.length = moveHistory.length survives finalization: when   *)
(* the two lists of a timeline had the same length at its capture, they     *)
(* have the same length again after rollback, however each list was changed *)
(* in between, both being restored from the one capture; and commit changes *)
(* neither list of any timeline.                                            *)
C20_LengthsSurvive ==
    /\ [][(Open(1) /\ AnyRollback) =>
            \A i \in 1..Len(txn[1].capturedStates) :
                LET state == txn[1].capturedStates[i]
                IN  (Len(state.snapshots) = Len(state.moveHistory)
                        /\ state.id \in DOMAIN timelines)
                    => /\ state.id \in DOMAIN timelines'
                       /\ SameLength(timelines'[state.id])
                       /\ Len(timelines'[state.id].moveHistory) = Len(state.moveHistory)]_vars
    /\ [][commit(1) =>
            /\ DOMAIN timelines' = DOMAIN timelines
            /\ \A id \in DOMAIN timelines :
                  /\ timelines'[id].moveHistory = timelines[id].moveHistory
                  /\ timelines'[id].snapshots = timelines[id].snapshots]_vars

\* After its capture one list of a timeline was appended to and the other
\* not; rollback has made the lengths equal again.
C20_Witness ==
    /\ outcome = RollbackComplete
    /\ steps = 1
    /\ uncaptured = {}
    /\ EventIndices("restore") # {}
    /\ \A id \in DOMAIN timelines : SameLength(timelines[id])

(* C21. Out-of-order capture is not detected: the first captureTimeline of *)
(* a timeline that was already changed in the operation succeeds without    *)
(* error and stores the timeline as it is then, the earlier change          *)
(* included; rollback gives the timeline that stored state, not the state   *)
(* it had before the operation began.                                       *)
C21_OutOfOrderCapture ==
    /\ [][\A id \in Ids :
            (Open(1) /\ ~HasCaptured(1, id) /\ captureTimeline(1, id, CallerLabel(1)))
                => /\ outcome' = Ok
                   /\ Len(txn'[1].capturedStates) = Len(txn[1].capturedStates) + 1
                   /\ LET state == txn'[1].capturedStates[Len(txn'[1].capturedStates)]
                      IN  /\ state.id = id
                          /\ state.fen = Fen(timelines[id].chess)
                          /\ state.moveHistory = timelines[id].moveHistory
                          /\ state.snapshots = timelines[id].snapshots]_vars
    /\ [](\A i \in 1..Len(txn[1].capturedStates) :
            LET state == txn[1].capturedStates[i]
            IN  /\ (state.id \in uncaptured \cap DOMAIN InitialTimelines)
                      => state.moveHistory # InitialTimelines[state.id].moveHistory
                /\ (outcome = RollbackComplete /\ state.id \in DOMAIN timelines)
                      => /\ Fen(timelines[state.id].chess) = state.fen
                         /\ timelines[state.id].moveHistory = state.moveHistory
                         /\ timelines[state.id].snapshots = state.snapshots)

\* Timeline 1 was changed, then captured, then changed again; rollback gave
\* it the captured state, which is not the state it began with.
C21_Witness ==
    /\ outcome = RollbackComplete
    /\ 1 \in uncaptured
    /\ 1 \in CapturedIds(1)
    /\ 1 \in DOMAIN timelines
    /\ steps = 2
    /\ Len(timelines[1].moveHistory) = Len(InitialTimelines[1].moveHistory) + 1
    /\ timelines[1].snapshots # InitialTimelines[1].snapshots

(* C22. Frame of rollback: a timeline of the registry that was neither      *)
(* captured nor recorded as new is left as it is; of a captured timeline    *)
(* only the position, moveHistory and snapshots change; id, parentId,       *)
(* branchTurn, xOffset and name are neither captured nor restored, so a     *)
(* change made to them during the failed operation is still there after     *)
(* rollback.                                                                *)
C22_RollbackFrame ==
    [][(Open(1) /\ AnyRollback) =>
          \A id \in (DOMAIN timelines) \ NewIds(1) :
              /\ id \in DOMAIN timelines'
              /\ IF id \in CapturedIds(1)
                 THEN /\ timelines'[id].id = timelines[id].id
                      /\ timelines'[id].parentId = timelines[id].parentId
                      /\ timelines'[id].branchTurn = timelines[id].branchTurn
                      /\ timelines'[id].xOffset = timelines[id].xOffset
                      /\ timelines'[id].name = timelines[id].name
                 ELSE timelines'[id] = timelines[id]]_vars

\* After its capture timeline 1 got a move and a new name; rollback took the
\* move back and left the name; timeline 2, changed without a capture, is
\* as the operation left it.
C22_Witness ==
    /\ outcome = RollbackComplete
    /\ CapturedIds(1) = {1}
    /\ 1 \notin uncaptured
    /\ DOMAIN timelines = {1, 2}
    /\ timelines[1].name = Bookkeeping.name
    /\ timelines[1].moveHistory = InitialTimelines[1].moveHistory
    /\ timelines[2] # InitialTimelines[2]

\* The events the step appends to the log.
NewEvents == SubSeq(events', Len(events) + 1, Len(events'))

(* C23. rolledBack is set only after every deletion and every restoration  *)
(* of rollback has run.  A rollback call on an Open transaction that ends   *)
(* with an exception (thrown by the delete callback, or by load) leaves the *)
(* transaction as it was, Open and with its captured state, and the         *)
(* registry partially rolled back: after the callback's exception the ids   *)
(* before the throwing one are deleted and nothing is restored, after       *)
(* load's exception every recorded id is deleted.  A rollback call that     *)
(* follows runs both steps again; in every call the callback is invoked     *)
(* only for ids that are in the registry, never for an id already removed.  *)
C23_RollbackExceptions ==
    /\ [][(Open(1) /\ \E cb \in ThrowKinds : rollback(1, cb)) =>
            /\ outcome' \in {RollbackComplete, ErrCallback, ErrLoad}
            /\ txn'[1].rolledBack <=> outcome' = RollbackComplete
            /\ outcome' # RollbackComplete => txn' = txn
            /\ outcome' = ErrCallback =>
                   /\ DOMAIN timelines' \subseteq DOMAIN timelines
                   /\ \A id \in DOMAIN timelines' : timelines'[id] = timelines[id]
                   /\ NewIds(1) \cap DOMAIN timelines' # {}
            /\ outcome' \in {RollbackComplete, ErrLoad} =>
                   NewIds(1) \cap DOMAIN timelines' = {}
            /\ outcome' = RollbackComplete =>
                   \A i \in 1..Len(txn[1].capturedStates) :
                       LET state == txn[1].capturedStates[i]
                       IN  state.id \in DOMAIN timelines' =>
                               /\ timelines'[state.id].moveHistory = state.moveHistory
                               /\ timelines'[state.id].snapshots = state.snapshots
            /\ \A i \in 1..Len(NewEvents) :
                   NewEvents[i].kind = "callback" =>
                       /\ NewEvents[i].id \in DOMAIN timelines
                       /\ NewEvents[i].present]_vars
    /\ [](outcome \in {ErrCallback, ErrLoad} => Open(1))

\* The callback returned for timeline 1 and threw for timeline 3; the second
\* rollback call did not invoke it for 1, invoked it for 3 again, deleted 3,
\* and ended with load's exception on the captured timeline 2: the
\* transaction is Open still.
C23_Witness ==
    /\ outcome = ErrLoad
    /\ Open(1)
    /\ CallbackCount(1) = 1
    /\ CallbackCount(3) = 2
    /\ DeletedIds = {1, 3}
    /\ DOMAIN timelines = {2}
    /\ EventIndices("restore") = {}

\* The squares a history layer holds.
LayerSquares(col, layer) ==
    {u \in Range(col.objects[layer].children) :
        Flag(col.objects[u].userData, "isHistory")}

\* Every layer the column was given, evicted ones included.
AllLayers(col) ==
    {u \in DOMAIN col.objects : "moveFrom" \in DOMAIN col.objects[u].userData}

\* The 0-based number of the addSnapshot call that made the layer.
SequenceNumber(col, layer) == Cardinality({v \in AllLayers(col) : v < layer})

EvictedLayers(col) == AllLayers(col) \ Range(col.historyLayers)

(* C24 as stated: after any sequence of addSnapshot calls historyLayers      *)
(* holds at most MAX_LAYERS layers, newest first, the oldest evicted, and    *)
(* getAllSquareMeshes returns exactly the 64 squares of the main board and   *)
(* the 64 squares of each retained layer, no square of an evicted layer.     *)
C24_BoundedLayers ==
    \A id \in DOMAIN timelineCols :
        LET col == timelineCols[id]
            n == Len(col.historyLayers)
            all == getAllSquareMeshes(col)
        IN  /\ n <= MAX_LAYERS
            /\ n = (IF calls < MAX_LAYERS THEN calls ELSE MAX_LAYERS)
            /\ \A i, j \in 1..n :
                   i < j => SequenceNumber(col, col.historyLayers[i])
                                > SequenceNumber(col, col.historyLayers[j])
            /\ \A i \in 1..n : SequenceNumber(col, col.historyLayers[i]) = calls - i
            /\ Len(all) = BoardSize * BoardSize * (1 + n)
            /\ Range(all) = Range(col.squareMeshes)
                              \cup UNION {LayerSquares(col, col.historyLayers[i]) :
                                              i \in 1..n}

\* The part of C24 about historyLayers alone.
C24_LayersBounded ==
    \A id \in DOMAIN timelineCols :
        LET col == timelineCols[id]
            n == Len(col.historyLayers)
        IN  /\ n = (IF calls < MAX_LAYERS THEN calls ELSE MAX_LAYERS)
            /\ \A i \in 1..n : SequenceNumber(col, col.historyLayers[i]) = calls - i
            /\ \A i \in 1..n :
                   col.objects[col.historyLayers[i]].parent = col.group
            /\ \A old \in EvictedLayers(col) : col.objects[old].parent = NullRef

\* The 13th call evicted the first layer; its 64 squares are still among the
\* meshes getAllSquareMeshes returns.
C24_Witness ==
    LET col == timelineCols[1]
    IN  /\ calls = MAX_LAYERS + 1
        /\ Len(col.historyLayers) = MAX_LAYERS
        /\ \E old \in EvictedLayers(col) :
               /\ LayerSquares(col, old) # {}
               /\ LayerSquares(col, old) \subseteq Range(getAllSquareMeshes(col))
        /\ Len(getAllSquareMeshes(col)) = BoardSize * BoardSize * (2 + MAX_LAYERS)

(* C25 as stated: after any sequence of addSnapshot calls every square of    *)
(* the history layer at position i of historyLayers carries turn i and       *)
(* isHistory true, a square of the main board carries turn -1; this is the   *)
(* turn a click on the square reports.                                       *)
C25_TurnIsPosition ==
    \A id \in DOMAIN timelineCols :
        LET col == timelineCols[id]
        IN  /\ \A i \in 1..Len(col.historyLayers) :
                   \A u \in LayerSquares(col, col.historyLayers[i]) :
                       /\ u \in Range(getAllSquareMeshes(col))
                       /\ onClick(col, u).turn = i - 1
                       /\ onClick(col, u).isHistory
            /\ \A u \in Range(col.squareMeshes) :
                   /\ onClick(col, u).turn = -1
                   /\ ~onClick(col, u).isHistory

\* The part of C25 about the main board.
C25_MainBoardTurn ==
    \A id \in DOMAIN timelineCols :
        \A u \in Range(timelineCols[id].squareMeshes) :
            /\ onClick(timelineCols[id], u).turn = -1
            /\ ~onClick(timelineCols[id], u).isHistory

\* The turn a history square carries is the length historyLayers had when
\* its layer was made.
C25_TurnIsLengthAtCreation ==
    \A id \in DOMAIN timelineCols :
        LET col == timelineCols[id]
            all == AllLayers(col)
        IN  \A layer \in all :
                LET made == Cardinality({v \in all : v < layer})
                    turn == IF made < MAX_LAYERS THEN made ELSE MAX_LAYERS
                IN  \A u \in LayerSquares(col, layer) : onClick(col, u).turn = turn

\* Two snapshots: a click on the newer layer, at position 0, reports turn 1,
\* a click on the older layer, at position 1, reports turn 0.
C25_Witness ==
    LET col == timelineCols[1]
    IN  /\ calls = 2
        /\ Len(col.historyLayers) = 2
        /\ \A u \in LayerSquares(col, col.historyLayers[1]) : onClick(col, u).turn = 1
        /\ \A u \in LayerSquares(col, col.historyLayers[2]) : onClick(col, u).turn = 0

\* The inter-layer lines that start at the height of the layer.
LinesOf(col, layer) ==
    {u \in Range(col.objects[col.interLayerGroup].children) :
        col.objects[u].userData.from.y = col.objects[layer].position.y + 100}

\* The layer at position i (from 1) is laid out as one whose snapshot has,
\* or has not, a branch drawn.
LaidOutAs(col, i, hasBranch) ==
    LET layer == col.historyLayers[i]
    IN  /\ (LinesOf(col, layer) = {}) <=> hasBranch
        /\ \A u \in LayerSquares(col, layer) :
               col.objects[u].material.opacity = LayerOpacity(hasBranch, i - 1)

(* C26 as stated: after any number of addSnapshot calls the snapshot index   *)
(* historyLayers.length - 1 - i that _layoutLayers looks up for the layer at *)
(* position i is the 0-based number of the addSnapshot call that made the    *)
(* layer, so that a layout dims, and leaves without an inter-layer line,     *)
(* exactly the layers showing a snapshot marked with markBranchDrawn.        *)
C26_LayerShowsSnapshot ==
    /\ [](\A id \in DOMAIN timelineCols :
             LET col == timelineCols[id]
                 n == Len(col.historyLayers)
             IN  \A i \in 1..n : n - i = SequenceNumber(col, col.historyLayers[i]))
    /\ [][calls' = calls + 1 =>
            \A id \in DOMAIN timelineCols' :
                LET col == timelineCols'[id]
                IN  \A i \in 1..Len(col.historyLayers) :
                        LaidOutAs(col, i,
                                  SequenceNumber(col, col.historyLayers[i])
                                      \in col.drawnBranchIndices)]_vars

\* The part of C26 that holds: while no layer has been evicted the index is
\* the number of the call, and a layer without an inter-layer line shows a
\* marked snapshot.
C26_WithinCapacity ==
    calls <= MAX_LAYERS =>
        \A id \in DOMAIN timelineCols :
            LET col == timelineCols[id]
                n == Len(col.historyLayers)
            IN  \A i \in 1..n :
                    /\ n - i = SequenceNumber(col, col.historyLayers[i])
                    /\ LinesOf(col, col.historyLayers[i]) = {}
                           => (n - i) \in col.drawnBranchIndices

\* Snapshot 0 was marked and then evicted by the 13th call: the layout took
\* the oldest layer left, which shows snapshot 1, for the marked one.
C26_Witness ==
    LET col == timelineCols[1]
        oldest == col.historyLayers[MAX_LAYERS]
    IN  /\ calls = MAX_LAYERS + 1
        /\ col.drawnBranchIndices = {0}
        /\ Len(col.historyLayers) = MAX_LAYERS
        /\ SequenceNumber(col, oldest) = 1
        /\ LaidOutAs(col, MAX_LAYERS, TRUE)
        /\ \A i \in 1..(MAX_LAYERS - 1) : LaidOutAs(col, i, FALSE)

\* Where the branch line from the turn of the column starts.
BranchPoint(col, fromTurn) ==
    Vector3(col.xOffset * 1000, -(fromTurn + 1) * LAYER_GAP + 200, 0)

\* The branch lines drawn from the turn of the column.
BranchLinesFrom(col, fromTurn) ==
    {i \in 1..Len(branchLineGroup) :
        branchLineGroup[i].userData.from = BranchPoint(col, fromTurn)}

(* C27. Branch lines are drawn at most once per branch point: however       *)
(* addBranchLine is called, there is at most one line per source column and *)
(* fromTurn, and there is one exactly when the turn is marked as drawn in   *)
(* the source column; a call for a pair already drawn changes nothing,      *)
(* whatever its destination; a call whose source or destination column does *)
(* not exist changes nothing, the marks included.                           *)
C27_OneLinePerBranchPoint ==
    /\ [](\A id \in DOMAIN timelineCols, k \in FromTurns :
             /\ Cardinality(BranchLinesFrom(timelineCols[id], k)) <= 1
             /\ BranchLinesFrom(timelineCols[id], k) # {}
                    <=> hasBranchDrawn(timelineCols[id], k))
    /\ [][\A f \in FromIds, k \in FromTurns, t \in ToIds :
             AddBranchLine(f, k, t) =>
                 IF f \notin DOMAIN timelineCols \/ t \notin DOMAIN timelineCols
                 THEN UNCHANGED <<timelineCols, branchLineGroup>>
                 ELSE IF hasBranchDrawn(timelineCols[f], k)
                 THEN UNCHANGED <<timelineCols, branchLineGroup>>
                 ELSE /\ Len(branchLineGroup') = Len(branchLineGroup) + 1
                      /\ hasBranchDrawn(timelineCols'[f], k)]_vars

\* Column 1 has one line from turn 0, to column 2, and is marked; column 3
\* exists, so the calls to it for the same turn added nothing; column 2 has
\* lines from both turns.
C27_Witness ==
    /\ DOMAIN timelineCols = ColIds
    /\ timelineCols[1].drawnBranchIndices = {0}
    /\ timelineCols[2].drawnBranchIndices = {0, 1}
    /\ Len(branchLineGroup) = 3
    /\ branchLineGroup[1].userData.from = BranchPoint(timelineCols[1], 0)
    /\ branchLineGroup[1].userData.to.x = timelineCols[2].xOffset * 1000

\* The sprites of the column's group that stand on the main board.
SpritesOn(col, r, c) ==
    {u \in MainBoardSprites(col) :
        /\ col.objects[u].position.x = c * 1000 - 3500
        /\ col.objects[u].position.z = r * 1000 - 3500}

(* C28. render is a full replacement: after render(position), whatever was  *)
(* rendered before, the main-board piece sprites in the column's group are  *)
(* one sprite for each non-empty square of position, on that square and     *)
(* showing its piece, and none for an empty square; pieceMeshes holds       *)
(* exactly those sprites; no sprite that existed before the call is among   *)
(* them, and the sprites tracked before have no parent.                     *)
C28_RenderReplaces ==
    [][\A position \in RenderPositions :
          Render(1, position, MaxRenders) =>
              LET col == timelineCols'[1]
                  before == timelineCols[1]
              IN  /\ \A r \in Rows, c \in Rows :
                         IF position[r][c] = Null
                         THEN SpritesOn(col, r, c) = {}
                         ELSE /\ Cardinality(SpritesOn(col, r, c)) = 1
                              /\ \A u \in SpritesOn(col, r, c) :
                                     col.objects[u].material.map = position[r][c]
                  /\ Range(col.pieceMeshes) = MainBoardSprites(col)
                  /\ Len(col.pieceMeshes) = Cardinality(MainBoardSprites(col))
                  /\ MainBoardSprites(col) \cap DOMAIN before.objects = {}
                  /\ \A u \in Range(before.pieceMeshes) :
                         col.objects[u].parent = NullRef]_vars

\* The board with the queen and the king was rendered, then the board with
\* the king alone: the column shows one sprite, the two sprites of the
\* render before are left without a parent.
C28_Witness ==
    LET col == timelineCols[1]
    IN  /\ calls = 2
        /\ Len(col.pieceMeshes) = 1
        /\ Cardinality(SpritesOn(col, 0, 4)) = 1
        /\ Cardinality({u \in DOMAIN col.objects :
                            /\ Flag(col.objects[u].userData, "isMainBoardPiece")
                            /\ col.objects[u].parent = NullRef}) = 2

\* What clearAll is said to empty is empty, and the main board is there.
Emptied(col) ==
    /\ col.historyLayers = <<>>
    /\ col.historySquareMeshes = <<>>
    /\ col.pieceMeshes = <<>>
    /\ col.highlightMeshes = <<>>
    /\ col.lastMoveHL = <<>>
    /\ col.crossTimelineTargets = <<>>
    /\ col.timeTravelTargets = <<>>
    /\ col.drawnBranchIndices = {}
    /\ col.objects[col.moveLineGroup].children = <<>>
    /\ col.objects[col.interLayerGroup].children = <<>>
    /\ col.squareMeshes = NewTimelineCol(col.id, col.xOffset).squareMeshes
    /\ Len(col.squareMeshes) = BoardSize * BoardSize
    /\ \A u \in Range(col.squareMeshes) :
           /\ col.objects[u].parent = col.group
           /\ col.objects[u].material.color = col.objects[u].userData.origColor
    /\ getAllSquareMeshes(col) = col.squareMeshes

\* The children of the group are those the constructor gave it.
ChildrenAsBuilt(col) ==
    col.objects[col.group].children
        = NewTimelineCol(col.id, col.xOffset).objects[col.group].children

\* The column is as the constructor leaves it: its fields, its group's
\* children, and each object the constructor made.
AsBuilt(col) ==
    LET new == NewTimelineCol(col.id, col.xOffset)
    IN  /\ [col EXCEPT !.objects = new.objects] = new
        /\ \A u \in DOMAIN new.objects : col.objects[u] = new.objects[u]

====
